---- MODULE Spec2Model ----
(***************************************************************************)
(* Semantic-token refresh engine: the per-buffer refresh orchestrator      *)
(* (editor/semantic_highlighting.rs), the chunked token cache              *)
(* (project/lsp_store/semantic_token_cache.rs) and the delta token stream  *)
(* (project/lsp_store/semantic_tokens.rs).                                 *)
(*                                                                         *)
(* One variable tuple serves several specifications, one per component:    *)
(*   SpecState   SemanticHighlightingState called directly                 *)
(*   Spec        Editor::refresh_semantic_tokens and its spawned tasks     *)
(*   SpecEdited  the same with two visible buffers of one language, up to  *)
(*               one observed BufferEdited call                            *)
(*   SpecObserved  Spec with or without a project, up to one observed call *)
(*   SpecCache   BufferSemanticTokens with its fetch slots                 *)
(*   SpecCacheOps  BufferSemanticTokens, one fetch at a time               *)
(*   SpecChunks  BufferSemanticTokens::new and applicable_chunks           *)
(*   SpecTokens  SemanticTokens encode / decode                            *)
(*   SpecRange   SemanticTokenBufferContainer::new and tokens_in_range     *)
(*   SpecColorRace  VariableColorCache, get_or_insert calls interleaved    *)
(*   SpecConvert SemanticTokenStylizer::convert                            *)
(*   SpecDecode  SemanticTokens::tokens on arrays of any length            *)
(*   SpecIter    SemanticTokensIter over u32 values, one next() at a time  *)
(*   SpecApply   SemanticTokens::apply on a list of edits                  *)
(*   SpecLive    Spec with fair timers, language-server answers and tasks  *)
(* A specification leaves the variables of the other components at their   *)
(* initial values.                                                         *)
(***************************************************************************)
EXTENDS Integers, Sequences, FiniteSets, TLC

VARIABLES
    \* ---- SemanticHighlightingState / Editor ----
    failure_counts,     \* HashMap<BufferId, u32>: a function on the buffers that have an entry
    refresh_tasks,      \* HashMap<BufferId, Task<()>>: buffer -> seq of the task whose handle is stored
    tasks,              \* the spawned futures that are still alive (not dropped, not finished)
    registered_buffers, \* Editor::registered_buffers (its key set)
    has_project,        \* Editor::project.is_some()
    excerpts,           \* the excerpts of the editor's multibuffer
    calls,              \* history, per buffer: record_failure calls since its last clear_failure
                        \* (SpecState), failed completions since its last successful one (Spec)
    last,               \* history: the operation that produced this state
    \* ---- BufferSemanticTokens ----
    last_row,           \* buffer_point_range.end.row of the snapshot
    buffer_chunks,      \* Vec<BufferChunk>
    tokens_by_chunk,    \* Vec<Option<CacheSemanticTokens>>
    fetches_by_chunk,   \* Vec<Option<CacheSemanticTokensTask>>: Some(id of the shared fetch) or Nil
    result_ids,         \* HashMap<LanguageServerId, String>
    in_flight,          \* language-server fetches that are running: records [id, chunk]
    fetch_seq,          \* number of language-server fetches issued so far
    ranges,             \* the last applicable_chunks argument, as row ranges
    applicable,         \* the chunks applicable_chunks returned for it
    \* ---- SemanticTokens ----
    abs_tokens,         \* absolute (line, start, length, type, modifiers) tuples
    data,               \* SemanticTokens::data
    decoded,            \* the tokens SemanticTokens::tokens() yields for data
    \* ---- SemanticTokenBufferContainer ----
    container_tokens,   \* SemanticTokenBufferContainer::tokens
    query,              \* the Range<usize> of the tokens_in_range call
    in_range,           \* the slice tokens_in_range returned for it
    \* ---- VariableColorCache ----
    colors,             \* DashMap<u64, Hsla>: a function on the hashes that have an entry
    mode,               \* VariableColorCache::mode
    shards,             \* DashMap: the index of the shard that holds each key
    clearing,           \* the clear() call that is running: Nil, or Some(the shard it empties next)
    color_calls,        \* get_or_insert calls that missed and have not inserted yet, per caller
    seen,               \* history: the [ident, theme, color] returned since clear() last emptied a shard
    \* ---- SemanticTokenStylizer ----
    convert_input,      \* the stylizer and the arguments of the convert call: Nil before the draw
    converted,          \* what convert returned: Nil (none) or Some(style)
    \* ---- SemanticTokensIter ----
    iter,               \* the iterator tokens() returned: Nil before the call, else [prev, pos, state]
    passes              \* history: what each finished iteration yielded

orch_vars  == <<failure_counts, refresh_tasks, tasks, registered_buffers,
                has_project, excerpts, calls, last>>
cache_vars == <<last_row, buffer_chunks, tokens_by_chunk, fetches_by_chunk, result_ids,
                in_flight, fetch_seq, ranges, applicable>>
token_vars == <<abs_tokens, data, decoded>>
range_vars == <<container_tokens, query, in_range>>
color_vars == <<colors, mode, shards, clearing, color_calls, seen>>
convert_vars == <<convert_input, converted>>
iter_vars == <<iter, passes>>
view_vars  == <<range_vars, color_vars, convert_vars, iter_vars>>
vars == <<orch_vars, cache_vars, token_vars, view_vars>>

\* Option values: None among strings; Nil and Some(x) for the other types.
None == "none"
Nil == <<>>
Some(x) == <<x>>

(***************************************************************************)
(* Bounds of the model.                                                    *)
(***************************************************************************)
MaxCalls    == 5    \* record_failure calls per buffer between two clears (SpecState)
MaxCount    == 4    \* a task records a failure only below this count (Spec)

(***************************************************************************)
(* The buffers.  Buffers 1 and 2 share a language, buffer 3 has another     *)
(* one, buffer 4 has no language and no excerpt.  Buffer 1 has two         *)
(* excerpts.                                                               *)
(***************************************************************************)
Buffers  == {1, 2, 3, 4}
Unknown  == CHOOSE n \in 5..9 : n \notin Buffers   \* a BufferId the multibuffer does not know
Excerpts == {1, 2, 3, 4}
Servers  == {1}

\* What visible_excerpts() can return for a multibuffer with excerpts ex.
Views(ex) == SUBSET ex

\* The multibuffer of Spec: both excerpts of buffer 1 and the excerpt of buffer 3.
SpecExcerpts == {1, 2, 4}

ExcerptBuffer(e) == CASE e = 1 -> 1 [] e = 2 -> 1 [] e = 3 -> 2 [] OTHER -> 3

Language(b) == CASE b = 1 -> "rust" [] b = 2 -> "rust" [] b = 3 -> "python" [] OTHER -> None

Reasons ==
    {[kind |-> "NewLinesShown"], [kind |-> "SettingsChanged"]}
    \cup {[kind |-> "BufferEdited", buffer |-> b] : b \in {1, 3, 4, Unknown}}
    \cup {[kind |-> "RefreshRequested", server |-> s] : s \in Servers}

(***************************************************************************)
(* SemanticHighlightingState                                               *)
(***************************************************************************)
SkipThreshold == 3

\* failure_count: the stored count, 0 for a buffer without an entry.
failure_count(fc, b) == IF b \in DOMAIN fc THEN fc[b] ELSE 0

\* record_failure: entry(b).or_insert(0) += 1; the new map.
record_failure(fc, b) ==
    [x \in DOMAIN fc \cup {b} |-> IF x = b THEN failure_count(fc, b) + 1 ELSE fc[x]]

\* clear_failure: the entry is removed.
clear_failure(fc, b) == [x \in DOMAIN fc \ {b} |-> fc[x]]

should_skip_buffer_gt(fc, b) == failure_count(fc, b) > SkipThreshold

\* should_skip_buffer: failure_count >= 3.
should_skip_buffer(fc, b) == failure_count(fc, b) >= SkipThreshold

Empty == [x \in {} |-> 0]

InitOrch ==
    /\ failure_counts = Empty
    /\ refresh_tasks = Empty
    /\ tasks = {}
    /\ registered_buffers = {}
    /\ has_project = TRUE
    /\ excerpts = SpecExcerpts
    /\ calls = [b \in Buffers |-> 0]
    /\ last = [op |-> "init"]

InitCache ==
    /\ last_row = 0
    /\ buffer_chunks = <<>>
    /\ tokens_by_chunk = <<>>
    /\ fetches_by_chunk = <<>>
    /\ result_ids = Empty
    /\ in_flight = {}
    /\ fetch_seq = 0
    /\ ranges = <<>>
    /\ applicable = {}

InitTokens ==
    /\ abs_tokens = <<>>
    /\ data = <<>>
    /\ decoded = <<>>

InitContainer ==
    /\ container_tokens = <<>>
    /\ query = [start |-> 0, end |-> 0]
    /\ in_range = <<>>

\* VariableColorCache::new(mode)
InitColorsFor(m) ==
    /\ colors = Empty
    /\ mode = m
    /\ shards = Empty
    /\ clearing = Nil
    /\ color_calls = Empty
    /\ seen = {}

InitStylizer ==
    /\ convert_input = Nil
    /\ converted = Nil

InitIter ==
    /\ iter = Nil
    /\ passes = <<>>

InitView == InitContainer /\ InitColorsFor("ThemePalette") /\ InitStylizer /\ InitIter

(***************************************************************************)
(* SpecState: record_failure and clear_failure called in any order.        *)
(***************************************************************************)
RecordFailure(b) ==
    /\ calls[b] < MaxCalls
    /\ failure_counts' = record_failure(failure_counts, b)
    /\ calls' = [calls EXCEPT ![b] = @ + 1]
    /\ last' = [op |-> "record_failure", buf |-> b]
    /\ UNCHANGED <<refresh_tasks, tasks, registered_buffers, has_project, excerpts>>
    /\ UNCHANGED <<cache_vars, token_vars, view_vars>>

ClearFailure(b) ==
    /\ failure_counts' = clear_failure(failure_counts, b)
    /\ calls' = [calls EXCEPT ![b] = 0]
    /\ last' = [op |-> "clear_failure", buf |-> b]
    /\ UNCHANGED <<refresh_tasks, tasks, registered_buffers, has_project, excerpts>>
    /\ UNCHANGED <<cache_vars, token_vars, view_vars>>

InitState == InitOrch /\ InitCache /\ InitTokens /\ InitView

NextState ==
    \/ \E b \in Buffers : RecordFailure(b)
    \/ \E b \in Buffers : ClearFailure(b)

SpecState == InitState /\ [][NextState]_vars

\* C1: should_skip_buffer(b) is true exactly when at least three record_failure(b)
\* calls happened since the last clear_failure(b) (or since creation), and
\* clear_failure(b) leaves failure_count(b) = 0 and should_skip_buffer(b) false.
C1_SkipIffThreeFailures ==
    /\ \A b \in Buffers :
        /\ should_skip_buffer(failure_counts, b) <=> calls[b] >= 3
        /\ failure_count(failure_counts, b) = calls[b]
    /\ last.op = "clear_failure" =>
        /\ failure_count(failure_counts, last.buf) = 0
        /\ ~should_skip_buffer(failure_counts, last.buf)

\* Buffer 1 has failed exactly three times and is skipped, buffer 3 has failed
\* twice and is not, and the last call cleared buffer 2.
C1_Witness ==
    /\ calls[1] = 3
    /\ should_skip_buffer(failure_counts, 1)
    /\ last = [op |-> "clear_failure", buf |-> 2]
    /\ calls[3] = 2 /\ ~should_skip_buffer(failure_counts, 3)

(***************************************************************************)
(* Editor::refresh_semantic_tokens                                         *)
(***************************************************************************)
NoStrategy == [kind |-> "NoStrategy"]   \* the Option::None of the strategy helper

InvalidateDebounce == 50
AppendDebounce     == 100

\* A strategy helper without the project test.
invalidation_strategy_any_project(project, reason) ==
    CASE reason.kind = "RefreshRequested" ->
            [kind |-> "RefreshRequested", server |-> reason.server]
      [] reason.kind \in {"BufferEdited", "SettingsChanged"} ->
            [kind |-> "BufferEdited"]
      [] OTHER -> [kind |-> "None"]

\* semantic_highlighting_invalidation_strategy: nothing without a project.
invalidation_strategy(project, reason) ==
    IF ~project THEN NoStrategy
    ELSE CASE reason.kind = "RefreshRequested" ->
                [kind |-> "RefreshRequested", server |-> reason.server]
           [] reason.kind \in {"BufferEdited", "SettingsChanged"} ->
                [kind |-> "BufferEdited"]
           [] OTHER -> [kind |-> "None"]

\* InvalidationStrategy::should_invalidate
should_invalidate(strategy) == strategy.kind \in {"RefreshRequested", "BufferEdited"}

\* A debounce chosen by the strategy alone.
debounce_for_by_strategy(reason, strategy) ==
    IF should_invalidate(strategy) THEN Some(InvalidateDebounce) ELSE Some(AppendDebounce)

\* The debounce a spawned task waits: None for SettingsChanged and
\* RefreshRequested, else by should_invalidate.
debounce_for(reason, strategy) ==
    IF reason.kind \in {"SettingsChanged", "RefreshRequested"} THEN Nil
    ELSE IF should_invalidate(strategy) THEN Some(InvalidateDebounce)
    ELSE Some(AppendDebounce)

\* A replacement forced by settings changes and server refreshes only.
ignore_previous_fetches_not_on_scroll(reason) ==
    reason.kind \in {"SettingsChanged", "RefreshRequested"}

\* ignore_previous_fetches
ignore_previous_fetches(reason) ==
    reason.kind \in {"SettingsChanged", "RefreshRequested", "NewLinesShown"}

\* The language of the edited buffer: None when the multibuffer does not know
\* the buffer or the buffer has no language (the early return).
affected_language(reason) ==
    IF reason.buffer \in Buffers THEN Language(reason.buffer) ELSE None

\* A BufferEdited filter that keeps the excerpts of the edited buffer only.
visible_buffers_edited_only(vis, reason) ==
    IF reason.kind = "BufferEdited"
    THEN {ExcerptBuffer(e) : e \in {x \in vis : ExcerptBuffer(x) = reason.buffer}}
    ELSE {ExcerptBuffer(e) : e \in vis}

\* The buffers of the visible excerpts, after the BufferEdited language filter.
visible_buffers(vis, reason) ==
    IF reason.kind = "BufferEdited"
    THEN {ExcerptBuffer(e) : e \in {x \in vis :
              Language(ExcerptBuffer(x)) = affected_language(reason)}}
    ELSE {ExcerptBuffer(e) : e \in vis}

\* registered_buffers after the collection loop's register_buffer calls for the
\* visible buffers; ok: whether the editor's registration attempts succeed.
registered_after(reg, bufs, ok) == IF ok THEN reg \cup bufs ELSE reg

buffers_to_fetch_no_skip(bufs, reg, fc) == {b \in bufs : b \in reg}

buffers_to_fetch_abort(bufs, reg, fc) ==
    IF \E b \in bufs : b \in reg /\ should_skip_buffer(fc, b) THEN {}
    ELSE {b \in bufs : b \in reg}

\* A collection loop that stops at the first buffer it accepts.
buffers_to_fetch_first_only(bufs, reg, fc) ==
    LET accepted == {b \in bufs : b \in reg /\ ~should_skip_buffer(fc, b)}
    IN IF accepted = {} THEN {} ELSE {CHOOSE b \in accepted : TRUE}

\* The collection loop: the distinct visible buffers that are registered (after
\* the attempt) and not skipped for their failures.
buffers_to_fetch(bufs, reg, fc) ==
    {b \in bufs : b \in reg /\ ~should_skip_buffer(fc, b)}

keeps_existing_no_force(strategy, ignore) == ~should_invalidate(strategy)

\* The spawn loop's test for a buffer with an active task: the existing task
\* is kept and nothing is spawned when this holds.
keeps_existing(strategy, ignore) == ~should_invalidate(strategy) /\ ~ignore

\* The live future whose handle the table stores for b (none when b has no entry).
held(ts, table, b) == {t \in ts : t.buf = b /\ b \in DOMAIN table /\ t.seq = table[b]}

tasks_after_insert_detached(ts, table, b, new) == ts \cup {new}

\* refresh_tasks.insert(buffer_id, task): the handle stored before is dropped,
\* which cancels its future; the new future is alive.
tasks_after_insert(ts, table, b, new) == (ts \ held(ts, table, b)) \cup {new}

table_after_completion_on_success(table, b, failed) ==
    IF failed THEN table ELSE [x \in DOMAIN table \ {b} |-> table[x]]

\* refresh_tasks.remove(&buffer_id) at the end of a task.
table_after_completion(table, b, failed) == [x \in DOMAIN table \ {b} |-> table[x]]

\* A bookkeeping that keeps the count when a task succeeds.
counts_after_completion_keeps_count(fc, b, failed) ==
    IF failed THEN record_failure(fc, b) ELSE fc

\* The failure bookkeeping at the end of a task.
counts_after_completion(fc, b, failed) ==
    IF failed THEN record_failure(fc, b) ELSE clear_failure(fc, b)

\* An identity for a new future of buffer b: the least number no live future of
\* b carries.
fresh_seq(ts, b) == CHOOSE n \in 1..(Cardinality(ts) + 1) :
                        /\ \A t \in ts : t.buf = b => t.seq # n
                        /\ \A m \in 1..(n - 1) : \E t \in ts : t.buf = b /\ t.seq = m

\* The future cx.spawn creates for b: not polled yet, its debounce captured.
new_task(ts, b, debounce) ==
    [buf |-> b, seq |-> fresh_seq(ts, b), pc |-> "start", debounce |-> debounce]

RECURSIVE spawn_all(_, _, _, _, _, _)
\* The spawn loop over the buffers left to handle: <<tasks, refresh_tasks>> after it.
spawn_all(todo, ts, table, strategy, ignore, debounce) ==
    IF todo = {} THEN <<ts, table>>
    ELSE LET b == CHOOSE x \in todo : TRUE
             new == new_task(ts, b, debounce)
         IN IF b \in DOMAIN table /\ keeps_existing(strategy, ignore)
            THEN spawn_all(todo \ {b}, ts, table, strategy, ignore, debounce)
            ELSE spawn_all(todo \ {b},
                           tasks_after_insert(ts, table, b, new),
                           [x \in DOMAIN table \cup {b} |->
                               IF x = b THEN new.seq ELSE table[x]],
                           strategy, ignore, debounce)

\* Whether refresh_semantic_tokens returns before the collection loop: no
\* strategy (no project), or a BufferEdited whose buffer has no known language.
returns_early(project, reason) ==
    \/ invalidation_strategy(project, reason) = NoStrategy
    \/ reason.kind = "BufferEdited" /\ affected_language(reason) = None

\* refresh_semantic_tokens(reason) as a function of the editor's state, with vis
\* the excerpts visible_excerpts() returns and reg_ok the outcome of the
\* register_buffer attempts: the fields it leaves behind.
refresh(fc, table, ts, reg, project, reason, vis, reg_ok) ==
    IF returns_early(project, reason)
    THEN [tasks |-> ts, refresh_tasks |-> table, registered_buffers |-> reg]
    ELSE LET strategy == invalidation_strategy(project, reason)
             bufs == visible_buffers(vis, reason)
             reg2 == registered_after(reg, bufs, reg_ok)
             after == spawn_all(buffers_to_fetch(bufs, reg2, fc), ts, table, strategy,
                                ignore_previous_fetches(reason),
                                debounce_for(reason, strategy))
         IN [tasks |-> after[1], refresh_tasks |-> after[2], registered_buffers |-> reg2]

\* The buffers a trigger covers: those of the visible excerpts it looks at.
covered(project, reason, vis) ==
    IF returns_early(project, reason) THEN {} ELSE visible_buffers(vis, reason)

Trigger(reason, vis, reg_ok) ==
    \E r \in {refresh(failure_counts, refresh_tasks, tasks, registered_buffers,
                     has_project, reason, vis, reg_ok)} :
       /\ registered_buffers' = r.registered_buffers
       /\ tasks' = r.tasks
       /\ refresh_tasks' = r.refresh_tasks
       /\ last' = [op |-> "trigger",
                   covered |-> covered(has_project, reason, vis),
                   replaced |-> {b \in DOMAIN refresh_tasks :
                                    r.refresh_tasks[b] # refresh_tasks[b]}]
       /\ UNCHANGED <<failure_counts, has_project, excerpts, calls>>
       /\ UNCHANGED <<cache_vars, token_vars, view_vars>>

\* The debounce timer (if any) has fired and store.semantic_tokens was called;
\* the debounce is not read again.
StartLsp(t) ==
    /\ t \in tasks /\ t.pc = "start"
    /\ tasks' = (tasks \ {t}) \cup {[t EXCEPT !.pc = "lsp", !.debounce = Nil]}
    /\ last' = [op |-> "start_lsp", buf |-> t.buf]
    /\ UNCHANGED <<failure_counts, refresh_tasks, registered_buffers, has_project,
                   excerpts, calls>>
    /\ UNCHANGED <<cache_vars, token_vars, view_vars>>

\* The final editor.update of a task.
Finish(t, failed, how) ==
    /\ failed => failure_count(failure_counts, t.buf) < MaxCount
    /\ refresh_tasks' = table_after_completion(refresh_tasks, t.buf, failed)
    /\ failure_counts' = counts_after_completion(failure_counts, t.buf, failed)
    /\ tasks' = (tasks \ held(tasks, refresh_tasks, t.buf)) \ {t}
    /\ last' = [op |-> "complete", buf |-> t.buf, how |-> how,
                current |-> t.buf \in DOMAIN refresh_tasks /\ refresh_tasks[t.buf] = t.seq]
    /\ calls' = [calls EXCEPT ![t.buf] = IF failed THEN @ + 1 ELSE 0]
    /\ UNCHANGED <<registered_buffers, has_project, excerpts>>
    /\ UNCHANGED <<cache_vars, token_vars, view_vars>>

\* The language-server task resolved: Ok(()) or Err.
Complete(t, failed) ==
    /\ t \in tasks /\ t.pc = "lsp"
    /\ Finish(t, failed, IF failed THEN "lsp_error" ELSE "lsp_ok")

\* project.update returned Err: the request could not be started.
FailToStart(t) ==
    /\ t \in tasks /\ t.pc = "start"
    /\ Finish(t, TRUE, "not_started")

Init ==
    /\ InitOrch /\ InitCache /\ InitTokens /\ InitView

Next ==
    \/ \E r \in Reasons : \E vis \in Views(excerpts) : \E reg_ok \in BOOLEAN :
            Trigger(r, vis, reg_ok)
    \/ \E t \in tasks : StartLsp(t)
    \/ \E t \in tasks : \E failed \in BOOLEAN : Complete(t, failed)
    \/ \E t \in tasks : FailToStart(t)

Spec == Init /\ [][Next]_vars

(***************************************************************************)
(* SpecLive: Spec where a spawned task is scheduled: its timer fires and   *)
(* its request is issued or refused, and the language server answers.      *)
(* Triggers are under no obligation to arrive.                             *)
(***************************************************************************)
TimerFires == \E t \in tasks : StartLsp(t) \/ FailToStart(t)

ServerAnswers == \E t \in tasks : \E failed \in BOOLEAN : Complete(t, failed)

SpecLive == Spec /\ WF_vars(TimerFires) /\ WF_vars(ServerAnswers)

(***************************************************************************)
(* SpecEdited: the editor with one excerpt for each of the buffers 1, 2    *)
(* and 3, so that two visible buffers share a language.                    *)
(***************************************************************************)
EditedExcerpts == {1, 3, 4}

MaxFailures == 4    \* failures recorded over all buffers together (SpecEdited)

RECURSIVE total_failures(_, _)
\* the sum of the failure counts of the buffers bufs
total_failures(fc, bufs) ==
    IF bufs = {} THEN 0
    ELSE LET b == CHOOSE x \in bufs : TRUE
         IN failure_count(fc, b) + total_failures(fc, bufs \ {b})

\* refresh_semantic_tokens(reason); an observed call leaves its arguments in last
Refresh(reason, vis, reg_ok, observed) ==
    \E r \in {refresh(failure_counts, refresh_tasks, tasks, registered_buffers,
                     has_project, reason, vis, reg_ok)} :
       /\ registered_buffers' = r.registered_buffers
       /\ tasks' = r.tasks
       /\ refresh_tasks' = r.refresh_tasks
       /\ last' = IF observed
                  THEN [op |-> "observed", reason |-> reason, vis |-> vis]
                  ELSE [op |-> "refresh"]
       /\ UNCHANGED <<failure_counts, has_project, excerpts, calls>>
       /\ UNCHANGED <<cache_vars, token_vars, view_vars>>

InitEdited ==
    /\ InitCache /\ InitTokens /\ InitView
    /\ failure_counts = Empty
    /\ refresh_tasks = Empty
    /\ tasks = {}
    /\ registered_buffers = {}
    /\ has_project = TRUE
    /\ excerpts = EditedExcerpts
    /\ calls = [b \in Buffers |-> 0]
    /\ last = [op |-> "init"]

\* The triggers of SpecEdited: scrolling and edits.
EditedReasons == {r \in Reasons : r.kind \in {"NewLinesShown", "BufferEdited"}}

\* The editor runs until one BufferEdited call is observed.
NextEdited ==
    \/ \E r \in EditedReasons : \E vis \in Views(excerpts) : \E reg_ok \in BOOLEAN :
            /\ last.op # "observed"
            /\ Refresh(r, vis, reg_ok, FALSE)
    \/ \E r \in EditedReasons : \E vis \in Views(excerpts) : \E reg_ok \in BOOLEAN :
            /\ last.op # "observed"
            /\ r.kind = "BufferEdited"
            /\ Refresh(r, vis, reg_ok, TRUE)
    \/ \E t \in tasks : last.op # "observed" /\ StartLsp(t)
    \/ \E t \in tasks : \E failed \in BOOLEAN :
            /\ last.op # "observed"
            /\ failed => total_failures(failure_counts, Buffers) < MaxFailures
            /\ Complete(t, failed)
    \/ \E t \in tasks :
            /\ last.op # "observed"
            /\ total_failures(failure_counts, Buffers) < MaxFailures
            /\ FailToStart(t)

SpecEdited == InitEdited /\ [][NextEdited]_vars

(***************************************************************************)
(* SpecObserved: the editor of Spec, with or without a project, up to one  *)
(* observed refresh_semantic_tokens call of any reason.                    *)
(***************************************************************************)
InitObserved ==
    /\ InitCache /\ InitTokens /\ InitView
    /\ failure_counts = Empty
    /\ refresh_tasks = Empty
    /\ tasks = {}
    /\ registered_buffers = {}
    /\ has_project \in BOOLEAN
    /\ excerpts = SpecExcerpts
    /\ calls = [b \in Buffers |-> 0]
    /\ last = [op |-> "init"]

NextObserved ==
    \/ \E r \in Reasons : \E vis \in Views(excerpts) : \E reg_ok \in BOOLEAN :
            /\ last.op # "observed"
            /\ Refresh(r, vis, reg_ok, FALSE)
    \/ \E r \in Reasons : \E vis \in Views(excerpts) : \E reg_ok \in BOOLEAN :
            /\ last.op # "observed"
            /\ Refresh(r, vis, reg_ok, TRUE)
    \/ \E t \in tasks : last.op # "observed" /\ StartLsp(t)
    \/ \E t \in tasks : \E failed \in BOOLEAN : last.op # "observed" /\ Complete(t, failed)
    \/ \E t \in tasks : last.op # "observed" /\ FailToStart(t)

SpecObserved == InitObserved /\ [][NextObserved]_vars

Strategies == {[kind |-> "None"], [kind |-> "BufferEdited"]}
                  \cup {[kind |-> "RefreshRequested", server |-> sv] : sv \in Servers}

TasksOf(ts, b) == {t \in ts : t.buf = b}

\* C2: once failure_count(b) has reached 3, should_skip_buffer(b) stays true in
\* every later state and no step (a trigger of any reason, a task start, a task
\* completion) adds a fetch task for b.
C2_SuppressedAbsorbing ==
    [][\A b \in Buffers :
          failure_count(failure_counts, b) >= 3 =>
              /\ should_skip_buffer(failure_counts', b)
              /\ TasksOf(tasks', b) \subseteq TasksOf(tasks, b)
              /\ b \notin DOMAIN refresh_tasks']_vars

\* A trigger that covered the suppressed buffer 1 has just run: it spawned a
\* task for buffer 3 and none for buffer 1.
C2_Witness ==
    /\ failure_count(failure_counts, 1) = 3
    /\ last.op = "trigger" /\ last.covered = {1, 3}
    /\ TasksOf(tasks, 1) = {} /\ 1 \notin DOMAIN refresh_tasks
    /\ \E t \in tasks : t.buf = 3 /\ t.pc = "start"

\* C3: right after a task of buffer b has run to completion (server call ok,
\* failed, or not started) refresh_tasks has no entry for b, and every trigger
\* that covers b then spawns a task for b unless b is suppressed.
C3_CompletionRemovesTask ==
    last.op = "complete" =>
        /\ last.buf \notin DOMAIN refresh_tasks
        /\ ~should_skip_buffer(failure_counts, last.buf) =>
              \A reason \in Reasons : \A vis \in Views(excerpts) : \A reg_ok \in BOOLEAN :
                  last.buf \in covered(has_project, reason, vis) =>
                      \E r \in {refresh(failure_counts, refresh_tasks, tasks,
                                        registered_buffers, has_project, reason, vis, reg_ok)} :
                          /\ last.buf \in DOMAIN r.refresh_tasks
                          /\ \E t \in r.tasks : /\ t.buf = last.buf
                                                /\ t.seq = r.refresh_tasks[last.buf]
                                                /\ t.pc = "start"

\* A task of buffer 1 has just completed with a language-server error, its
\* second failure, while buffer 3 still has its task.
C3_Witness ==
    /\ last.op = "complete" /\ last.buf = 1 /\ last.how = "lsp_error"
    /\ failure_count(failure_counts, 1) = 2
    /\ 3 \in DOMAIN refresh_tasks

\* C4: a superseded task never changes failure_counts or refresh_tasks: the
\* task that completes is the one whose handle refresh_tasks holds for its
\* buffer, and no other task of that buffer is alive to complete later.
C4_OnlyCurrentTaskUpdates ==
    /\ last.op = "complete" => last.current
    /\ \A t \in tasks : held(tasks, refresh_tasks, t.buf) = {t}
    /\ \A b \in Buffers : Cardinality(TasksOf(tasks, b)) <= 1

\* The last trigger superseded the task of buffer 1, which had already called
\* the language server; only the new task of buffer 1 is alive.
C4_Witness ==
    /\ last.op = "trigger" /\ 1 \in last.replaced
    /\ \E t \in tasks : TasksOf(tasks, 1) = {t} /\ t.pc = "start"
    /\ \E t \in tasks : t.buf = 3 /\ t.pc = "lsp"

\* C5: for a collected buffer b that already has an active task, whatever the
\* strategy and the force flag of the spawn loop: if the strategy does not
\* invalidate and replacement is not forced, b's entry and task are untouched;
\* otherwise the old task is cancelled and exactly one new task, not yet
\* started, is stored for b.
C5_CoalesceOrReplace ==
    \A reason \in Reasons : \A vis \in Views(excerpts) : \A reg_ok \in BOOLEAN :
    \A strategy \in Strategies : \A ignore \in BOOLEAN :
        LET bufs == visible_buffers(vis, reason)
            todo == buffers_to_fetch(bufs,
                        registered_after(registered_buffers, bufs, reg_ok), failure_counts)
        IN \E after \in {spawn_all(todo, tasks, refresh_tasks, strategy, ignore,
                                   debounce_for(reason, strategy))} :
            \A b \in todo \cap DOMAIN refresh_tasks :
                IF ~should_invalidate(strategy) /\ ~ignore
                THEN /\ after[2][b] = refresh_tasks[b]
                     /\ TasksOf(after[1], b) = TasksOf(tasks, b)
                ELSE /\ held(tasks, refresh_tasks, b) \cap after[1] = {}
                     /\ Cardinality(TasksOf(after[1], b)) = 1
                     /\ \A t \in TasksOf(after[1], b) :
                            /\ t \notin tasks
                            /\ t.pc = "start"
                            /\ t.seq = after[2][b]

\* The last trigger replaced the active task of buffer 3 and left buffer 1,
\* which it did not cover, with its running task.
C5_Witness ==
    /\ last.op = "trigger" /\ last.replaced = {3} /\ last.covered = {3}
    /\ \E t \in tasks : t.buf = 1 /\ t.pc = "lsp"
    /\ \E t \in tasks : t.buf = 3 /\ t.pc = "start"

\* C6: a failed completion for buffer A changes neither the failure count nor
\* the task of any other buffer B, and while A is suppressed every trigger
\* still spawns a task for every other buffer B it covers that is registered
\* after the attempt and not suppressed.
C6_FailuresContained ==
    [][/\ (last'.op = "complete" /\ last'.how # "lsp_ok") =>
            \A B \in Buffers \ {last'.buf} :
                /\ failure_count(failure_counts', B) = failure_count(failure_counts, B)
                /\ (B \in DOMAIN refresh_tasks') = (B \in DOMAIN refresh_tasks)
                /\ B \in DOMAIN refresh_tasks => refresh_tasks'[B] = refresh_tasks[B]
                /\ TasksOf(tasks', B) = TasksOf(tasks, B)
       /\ \A A \in Buffers : should_skip_buffer(failure_counts, A) =>
            \A reason \in Reasons : \A vis \in Views(excerpts) : \A reg_ok \in BOOLEAN :
                \E r \in {refresh(failure_counts, refresh_tasks, tasks,
                                  registered_buffers, has_project, reason, vis, reg_ok)} :
                    \A B \in covered(has_project, reason, vis) \ {A} :
                        (B \in r.registered_buffers /\ ~should_skip_buffer(failure_counts, B))
                        => /\ B \in DOMAIN r.refresh_tasks
                           /\ \E t \in r.tasks \ tasks : /\ t.buf = B
                                                         /\ t.seq = r.refresh_tasks[B]
                                                         /\ t.pc = "start"
      ]_vars

\* Buffer 3 is suppressed, and the last trigger, which covered buffers 1 and 3,
\* replaced the task of buffer 1, which has failed twice.
C6_Witness ==
    /\ should_skip_buffer(failure_counts, 3)
    /\ failure_count(failure_counts, 1) = 2
    /\ last.op = "trigger" /\ last.covered = {1, 3} /\ last.replaced = {1}
    /\ \E t \in tasks : t.buf = 1 /\ t.pc = "start"

(***************************************************************************)
(* BufferSemanticTokens                                                    *)
(***************************************************************************)
MAX_ROWS_IN_A_CHUNK == 50

Min(a, b) == IF a <= b THEN a ELSE b

\* (0..=last_row).step_by(MAX_ROWS_IN_A_CHUNK): the rows the iterator yields.
chunk_starts(lr) == {r \in 0..lr : r % MAX_ROWS_IN_A_CHUNK = 0}

\* BufferSemanticTokens::new: buffer_chunks, the enumerated chunk starts mapped to
\* BufferChunk { id, start, end: (start + MAX_ROWS_IN_A_CHUNK).min(last_row) }.
\* The Vec's element k (from 0) is the sequence's element k + 1.
new_chunks_from(starts, lr) ==
    [i \in 1..Cardinality(starts) |->
        LET st == CHOOSE r \in starts : Cardinality({x \in starts : x < r}) = i - 1
        IN [id |-> i - 1, start |-> st, end |-> Min(st + MAX_ROWS_IN_A_CHUNK, lr)]]

new_chunks(lr) == new_chunks_from(chunk_starts(lr), lr)

\* chunk_range.contains(row), chunk_range = chunk.start..=chunk.end
chunk_contains(chunk, row) == chunk.start <= row /\ row <= chunk.end

\* applicable_chunks: the chunks that contain the start row or the end row of
\* some requested range.  rs: the row ranges of the requested anchor ranges.
applicable_chunks(chunks, rs) ==
    {chunks[i] : i \in {k \in DOMAIN chunks :
        \E j \in DOMAIN rs : \/ chunk_contains(chunks[k], rs[j].start)
                             \/ chunk_contains(chunks[k], rs[j].end)}}

\* A vector of present, empty entries.
all_present(chunks) == [i \in DOMAIN chunks |-> Some(<<>>)]

\* vec![None; buffer_chunks.len()]
all_none(chunks) == [i \in DOMAIN chunks |-> Nil]

\* cached_tokens(chunk): tokens_by_chunk[chunk.id]
cached_tokens(tbc, chunk) == tbc[chunk.id + 1]

\* fetched_tokens(chunk): the slot fetches_by_chunk[chunk.id]
fetched_tokens(fbc, chunk) == fbc[chunk.id + 1]

\* An insert that replaces the chunk's map by one holding the new entry alone.
tokens_after_insert_alone(tbc, chunk, server, toks) ==
    [tbc EXCEPT ![chunk.id + 1] = Some([x \in {server} |-> toks])]

\* insert_new_tokens: tokens_by_chunk afterwards.
tokens_after_insert(tbc, chunk, server, toks) ==
    LET old == IF tbc[chunk.id + 1] = Nil THEN Empty ELSE tbc[chunk.id + 1][1]
    IN [tbc EXCEPT ![chunk.id + 1] =
            Some([x \in DOMAIN old \cup {server} |-> IF x = server THEN toks ELSE old[x]])]

\* insert_new_tokens: result_ids afterwards.
result_ids_after_insert(rids, server, result_id) ==
    IF result_id = None THEN rids
    ELSE [x \in DOMAIN rids \cup {server} |-> IF x = server THEN result_id ELSE rids[x]]

\* result_id(server)
result_id(rids, server) == IF server \in DOMAIN rids THEN rids[server] ELSE None

\* A removal that drops a chunk's map when the server was its last entry.
tokens_after_remove_pruned(tbc, server) ==
    [i \in DOMAIN tbc |->
        IF tbc[i] = Nil THEN Nil
        ELSE IF DOMAIN tbc[i][1] \subseteq {server} THEN Nil
        ELSE Some([x \in DOMAIN tbc[i][1] \ {server} |-> tbc[i][1][x]])]

\* remove_server_data: tokens_by_chunk afterwards.
tokens_after_remove(tbc, server) ==
    [i \in DOMAIN tbc |->
        IF tbc[i] = Nil THEN Nil
        ELSE Some([x \in DOMAIN tbc[i][1] \ {server} |-> tbc[i][1][x]])]

\* A removal that leaves the result ids as they are.
result_ids_after_remove_kept(rids, server) == rids

\* remove_server_data: result_ids afterwards.
result_ids_after_remove(rids, server) == [x \in DOMAIN rids \ {server} |-> rids[x]]

CacheServers == {1, 2}
TokenValues  == {"a", "b"}
ResultIds    == {"r1", "r2"}
CacheRows    == {0, 60}
MaxFetches   == 2    \* language-server fetches issued in one behaviour (SpecCache)

InitCacheFor(lr) ==
    /\ last_row = lr
    /\ buffer_chunks = new_chunks(lr)
    /\ tokens_by_chunk = all_none(new_chunks(lr))
    /\ fetches_by_chunk = all_none(new_chunks(lr))
    /\ result_ids = Empty
    /\ in_flight = {}
    /\ fetch_seq = 0
    /\ ranges = <<>>
    /\ applicable = {}

ChunkSet == {buffer_chunks[i] : i \in DOMAIN buffer_chunks}

FetchesOf(c) == {f \in in_flight : f.chunk = c.id}

\* A caller asks for the tokens of chunk c: it attaches to the fetch in the
\* chunk's slot, or, the slot being empty, calls the language server and
\* stores the shared fetch in the slot.
Request(c) ==
    /\ IF fetched_tokens(fetches_by_chunk, c) # Nil
       THEN /\ last' = [op |-> "attach", chunk |-> c.id]
            /\ UNCHANGED <<fetches_by_chunk, in_flight, fetch_seq>>
       ELSE /\ fetch_seq < MaxFetches
            /\ fetch_seq' = fetch_seq + 1
            /\ in_flight' = in_flight \cup {[id |-> fetch_seq + 1, chunk |-> c.id]}
            /\ fetches_by_chunk' = [fetches_by_chunk EXCEPT ![c.id + 1] = Some(fetch_seq + 1)]
            /\ last' = [op |-> "fetch", chunk |-> c.id]
    /\ UNCHANGED <<last_row, buffer_chunks, tokens_by_chunk, result_ids, ranges, applicable>>
    /\ UNCHANGED <<failure_counts, refresh_tasks, tasks, registered_buffers, has_project,
                   excerpts, calls>>
    /\ UNCHANGED <<token_vars, view_vars>>

\* The language server answered fetch f: it is no longer in flight, and the
\* slot that still holds it is emptied.
FetchDone(f) ==
    /\ f \in in_flight
    /\ in_flight' = in_flight \ {f}
    /\ fetches_by_chunk' = [i \in DOMAIN fetches_by_chunk |->
                               IF fetches_by_chunk[i] = Some(f.id) THEN Nil
                               ELSE fetches_by_chunk[i]]
    /\ last' = [op |-> "fetch_done", chunk |-> f.chunk]
    /\ UNCHANGED <<last_row, buffer_chunks, tokens_by_chunk, result_ids, fetch_seq,
                   ranges, applicable>>
    /\ UNCHANGED <<failure_counts, refresh_tasks, tasks, registered_buffers, has_project,
                   excerpts, calls>>
    /\ UNCHANGED <<token_vars, view_vars>>

InsertNewTokens(c, server, toks, rid) ==
    /\ tokens_by_chunk' = tokens_after_insert(tokens_by_chunk, c, server, toks)
    /\ result_ids' = result_ids_after_insert(result_ids, server, rid)
    /\ last' = [op |-> "insert_new_tokens", chunk |-> c.id, server |-> server,
                tokens |-> toks, result_id |-> rid]
    /\ UNCHANGED <<last_row, buffer_chunks, fetches_by_chunk, in_flight, fetch_seq,
                   ranges, applicable>>
    /\ UNCHANGED <<failure_counts, refresh_tasks, tasks, registered_buffers, has_project,
                   excerpts, calls>>
    /\ UNCHANGED <<token_vars, view_vars>>

RemoveServerData(server) ==
    /\ tokens_by_chunk' = tokens_after_remove(tokens_by_chunk, server)
    /\ result_ids' = result_ids_after_remove(result_ids, server)
    /\ last' = [op |-> "remove_server_data", server |-> server]
    /\ UNCHANGED <<last_row, buffer_chunks, fetches_by_chunk, in_flight, fetch_seq,
                   ranges, applicable>>
    /\ UNCHANGED <<failure_counts, refresh_tasks, tasks, registered_buffers, has_project,
                   excerpts, calls>>
    /\ UNCHANGED <<token_vars, view_vars>>

\* clear(): every slot and every cached map is reset.  A shared fetch whose
\* slot handle is dropped keeps running while a caller still awaits it and is
\* cancelled otherwise: keep is the set of those that keep running.
Clear(keep) ==
    /\ keep \subseteq in_flight
    /\ tokens_by_chunk' = all_none(buffer_chunks)
    /\ fetches_by_chunk' = all_none(buffer_chunks)
    /\ result_ids' = Empty
    /\ in_flight' = keep
    /\ last' = [op |-> "clear"]
    /\ UNCHANGED <<last_row, buffer_chunks, fetch_seq, ranges, applicable>>
    /\ UNCHANGED <<failure_counts, refresh_tasks, tasks, registered_buffers, has_project,
                   excerpts, calls>>
    /\ UNCHANGED <<token_vars, view_vars>>

InitCacheSpec ==
    /\ InitOrch /\ InitTokens /\ InitView
    /\ \E lr \in CacheRows : InitCacheFor(lr)

NextCache ==
    \/ \E c \in ChunkSet : Request(c)
    \/ \E f \in in_flight : FetchDone(f)
    \/ \E c \in ChunkSet : \E server \in CacheServers : \E toks \in TokenValues :
       \E rid \in ResultIds \cup {None} : InsertNewTokens(c, server, toks, rid)
    \/ \E server \in CacheServers : RemoveServerData(server)
    \/ \E keep \in SUBSET in_flight : Clear(keep)

SpecCache == InitCacheSpec /\ [][NextCache]_vars

\* C7: for every chunk at most one language-server fetch is in flight at a
\* time, under any interleaving of requests with insert_new_tokens,
\* remove_server_data and clear.
C7_OneFetchPerChunk ==
    \A c \in ChunkSet : Cardinality(FetchesOf(c)) <= 1

(***************************************************************************)
(* SpecChunks: BufferSemanticTokens::new for a buffer of any extent, and   *)
(* applicable_chunks for any list of row ranges.                           *)
(***************************************************************************)
MaxLastRow == 110   \* the buffer's last row is at most this
MaxRanges  == 2     \* ranges in one applicable_chunks call

\* Rows at and next to the chunk boundaries, and the buffer's last row.
SampleRows(lr) == {r \in 0..lr : r % MAX_ROWS_IN_A_CHUNK \in {0, MAX_ROWS_IN_A_CHUNK - 1}}
                      \cup {lr}

\* The row ranges start..=end of the requested anchor ranges.
OrderedRowRanges(lr) ==
    {rg \in [start : SampleRows(lr), end : SampleRows(lr)] : rg.start <= rg.end}

RangeLists(lr) == UNION {[1..n -> OrderedRowRanges(lr)] : n \in 0..MaxRanges}

\* applicable_chunks(ranges) on the buffer's chunks.
ApplicableChunks ==
    /\ last.op = "init"
    /\ applicable' = applicable_chunks(buffer_chunks, ranges)
    /\ last' = [op |-> "applicable_chunks"]
    /\ UNCHANGED <<last_row, buffer_chunks, tokens_by_chunk, fetches_by_chunk, result_ids,
                   in_flight, fetch_seq, ranges>>
    /\ UNCHANGED <<failure_counts, refresh_tasks, tasks, registered_buffers, has_project,
                   excerpts, calls>>
    /\ UNCHANGED <<token_vars, view_vars>>

\* A buffer of any extent up to MaxLastRow, just constructed, and the ranges
\* of the call to come.
InitChunks ==
    /\ InitOrch /\ InitTokens /\ InitView
    /\ \E lr \in 0..MaxLastRow :
          /\ last_row = lr
          /\ buffer_chunks = new_chunks(lr)
          /\ tokens_by_chunk = all_none(new_chunks(lr))
          /\ fetches_by_chunk = all_none(new_chunks(lr))
          /\ ranges \in RangeLists(lr)
    /\ result_ids = Empty
    /\ in_flight = {}
    /\ fetch_seq = 0
    /\ applicable = {}

NextChunks == ApplicableChunks

SpecChunks == InitChunks /\ [][NextChunks]_vars

Rows(chunk) == chunk.start..chunk.end

CeilDiv(a, b) == (a + b - 1) \div b

\* C8: for a buffer whose last row is R, new produces ceil(R / C) chunks, with
\* pairwise disjoint, contiguous row spans whose union is [0, R], and ids
\* 0, 1, 2, ... in increasing row order.  Rows(chunk) is the span as
\* applicable_chunks reads it, start..=end.
C8_AsStated ==
    /\ Len(buffer_chunks) = CeilDiv(last_row, MAX_ROWS_IN_A_CHUNK)
    /\ \A i, j \in DOMAIN buffer_chunks :
           i # j => Rows(buffer_chunks[i]) \cap Rows(buffer_chunks[j]) = {}
    /\ UNION {Rows(buffer_chunks[i]) : i \in DOMAIN buffer_chunks} = 0..last_row
    /\ \A i \in DOMAIN buffer_chunks : buffer_chunks[i].id = i - 1
    /\ \A i, j \in DOMAIN buffer_chunks :
           i < j => buffer_chunks[i].start < buffer_chunks[j].start

Intersects(chunk, rg) == \E r \in Rows(chunk) : rg.start <= r /\ r <= rg.end

\* C9: applicable_chunks returns exactly the chunks whose row span intersects at
\* least one requested range, a chunk lying strictly inside a range included.
C9_ExactlyIntersecting ==
    last.op = "applicable_chunks" =>
        applicable = {c \in ChunkSet : \E j \in DOMAIN ranges : Intersects(c, ranges[j])}

(***************************************************************************)
(* SemanticTokens: the delta-encoded token stream and its decoding.        *)
(* A token is the tuple <<line, start, length, token_type, token_modifiers>>.*)
(***************************************************************************)
MaxTokens == 3   \* tokens in one sequence
MaxLine   == 2   \* largest line of a token
MaxStart  == 2   \* largest start column of a token

\* <<length, token_type, token_modifiers>> of the tokens drawn
Payloads == {<<3, 1, 0>>, <<4, 2, 1>>}

\* the elements of one token in data
TOKEN_WIDTH == 5

AbsTokens == {<<l, st, pl[1], pl[2], pl[3]>> : l \in 0..MaxLine, st \in 0..MaxStart,
                                                 pl \in Payloads}

\* non-decreasing (line, start) order
position_le(a, b) == a[1] < b[1] \/ (a[1] = b[1] /\ a[2] <= b[2])

sorted_tokens(toks) == \A i \in 1..(Len(toks) - 1) : position_le(toks[i], toks[i + 1])

SortedTokenSeqs ==
    UNION {{toks \in [1..n -> AbsTokens] : sorted_tokens(toks)} : n \in 0..MaxTokens}

\* encode_tokens: one loop iteration's delta_start
encode_delta_start(delta_line, start, prev_start) ==
    IF delta_line = 0 THEN start - prev_start ELSE start

RECURSIVE encode_from(_, _, _, _)
encode_from(toks, i, prev_line, prev_start) ==
    IF i > Len(toks) THEN <<>>
    ELSE LET tok == toks[i]
             delta_line == tok[1] - prev_line
         IN <<delta_line, encode_delta_start(delta_line, tok[2], prev_start),
              tok[3], tok[4], tok[5]>>
            \o encode_from(toks, i + 1, tok[1], tok[2])

\* encode_tokens(tokens): the delta-encoded data, prev_line = prev_start = 0 at first
encode_tokens(toks) == encode_from(toks, 1, 0, 0)

\* data.chunks_exact(5): the k-th whole chunk of five elements (k from 1); a
\* remainder shorter than five is left out.
chunks_exact_len(d) == Len(d) \div TOKEN_WIDTH

\* Chunks of five aligned to the end of the data, as rchunks_exact would cut them.
chunk_at_from_end(d, k) ==
    [j \in 1..TOKEN_WIDTH |-> d[(Len(d) % TOKEN_WIDTH) + (k - 1) * TOKEN_WIDTH + j]]

chunk_at(d, k) == [j \in 1..TOKEN_WIDTH |-> d[(k - 1) * TOKEN_WIDTH + j]]

\* A decoder that takes every delta_start relative to the previous start.
next_position_always_relative(prev, delta_line, delta_start) ==
    IF prev # Nil
    THEN <<prev[1][1] + delta_line, prev[1][2] + delta_start>>
    ELSE <<delta_line, delta_start>>

\* SemanticTokensIter::next: (line, start) of the token from prev and the deltas
next_position(prev, delta_line, delta_start) ==
    IF prev # Nil
    THEN <<prev[1][1] + delta_line,
           IF delta_line = 0 THEN prev[1][2] + delta_start ELSE delta_start>>
    ELSE <<delta_line, delta_start>>

\* SemanticTokens::tokens() run to its end: the SemanticToken items
RECURSIVE tokens_from(_, _, _)
tokens_from(d, k, prev) ==
    IF k > chunks_exact_len(d) THEN <<>>
    ELSE LET chunk == chunk_at(d, k)
             pos == next_position(prev, chunk[1], chunk[2])
         IN <<[line |-> pos[1], start |-> pos[2], length |-> chunk[3],
               token_type |-> chunk[4], token_modifiers |-> chunk[5]]>>
            \o tokens_from(d, k + 1, Some(pos))

tokens(d) == tokens_from(d, 1, Nil)

\* decode_tokens: the items of tokens() as tuples
decode_tokens(d) ==
    LET items == tokens(d)
    IN [k \in DOMAIN items |-> <<items[k].line, items[k].start, items[k].length,
                                 items[k].token_type, items[k].token_modifiers>>]

Encode ==
    /\ last.op = "init"
    /\ data' = encode_tokens(abs_tokens)
    /\ last' = [op |-> "encoded"]
    /\ UNCHANGED <<abs_tokens, decoded>>
    /\ UNCHANGED <<failure_counts, refresh_tasks, tasks, registered_buffers, has_project,
                   excerpts, calls>>
    /\ UNCHANGED <<cache_vars, view_vars>>

Decode ==
    /\ last.op = "encoded"
    /\ decoded' = decode_tokens(data)
    /\ last' = [op |-> "decoded"]
    /\ UNCHANGED <<abs_tokens, data>>
    /\ UNCHANGED <<failure_counts, refresh_tasks, tasks, registered_buffers, has_project,
                   excerpts, calls>>
    /\ UNCHANGED <<cache_vars, view_vars>>

\* Any sequence of tokens in non-decreasing (line, start) order.
InitTokenSpec ==
    /\ InitOrch /\ InitCache /\ InitView
    /\ abs_tokens \in SortedTokenSeqs
    /\ data = <<>>
    /\ decoded = <<>>

NextTokens == Encode \/ Decode

SpecTokens == InitTokenSpec /\ [][NextTokens]_vars

\* C10: delta-encoding a sequence of tokens in non-decreasing (line, start)
\* order and decoding the result with tokens() yields the original sequence,
\* length, type and modifiers included.
C10_RoundTrip ==
    (last.op = "decoded" /\ sorted_tokens(abs_tokens)) => decoded = abs_tokens

\* Decoded: a sequence with two tokens on one line at different columns,
\* followed by a token on a later line, after a token at a non-zero column.
C10_Witness ==
    /\ last.op = "decoded"
    /\ Len(abs_tokens) = MaxTokens
    /\ abs_tokens[1][1] = abs_tokens[2][1]
    /\ abs_tokens[1][2] < abs_tokens[2][2]
    /\ abs_tokens[2][1] < abs_tokens[3][1]
    /\ abs_tokens[3][2] > 0
    /\ abs_tokens[1][3] # abs_tokens[2][3]
    /\ Len(data) = TOKEN_WIDTH * MaxTokens
    /\ decoded = abs_tokens

(***************************************************************************)
(* SpecRange: SemanticTokenBufferContainer, the styled tokens of a buffer  *)
(* sorted by range.start, and its range query.  A token is the record      *)
(* [id, start]: start is range.start, id stands for the rest of the token. *)
(***************************************************************************)
MaxContainer == 3   \* tokens in the container
MaxOffset    == 3   \* largest range.start of a token

\* The converted tokens in the order tokens() yielded them; clipping may give
\* several tokens the same start offset.
ConvertedTokens ==
    UNION {{[i \in 1..n |-> [id |-> i, start |-> starts[i]]] :
                starts \in [1..n -> 0..MaxOffset]} : n \in 0..MaxContainer}

Queries == {q \in [start : 0..(MaxOffset + 1), end : 0..(MaxOffset + 1)] : q.start <= q.end}

\* tokens.sort_by_key(|token| token.range.start): a stable sort.
RECURSIVE sort_by_key(_)
sort_by_key(toks) ==
    IF Len(toks) = 0 THEN <<>>
    ELSE LET least == CHOOSE i \in DOMAIN toks :
                          /\ \A j \in DOMAIN toks : toks[i].start <= toks[j].start
                          /\ \A j \in 1..(i - 1) : toks[j].start # toks[i].start
             rest == [k \in 1..(Len(toks) - 1) |->
                         IF k < least THEN toks[k] ELSE toks[k + 1]]
         IN <<toks[least]>> \o sort_by_key(rest)

\* binary_search_by_key(key, |token| token.range.start).unwrap_or_else(|next_ix| next_ix)
\* on a sorted slice: the index (from 0) of a token whose start is key, any one
\* of them when there are several, else the index where key could be inserted.
binary_search_by_key(toks, key) ==
    LET found == {i \in 0..(Len(toks) - 1) : toks[i + 1].start = key}
    IN IF found # {} THEN found
       ELSE {Cardinality({i \in DOMAIN toks : toks[i].start < key})}

\* &self.tokens[start..end]
slice(toks, start, end) == SubSeq(toks, start + 1, end)

\* tokens_in_range(query).  Two searches for one key give one index.
TokensInRange ==
    /\ last.op = "init"
    /\ \E start \in binary_search_by_key(container_tokens, query.start) :
       \E end \in binary_search_by_key(container_tokens, query.end) :
          /\ query.start = query.end => start = end
          /\ in_range' = slice(container_tokens, start, end)
    /\ last' = [op |-> "tokens_in_range"]
    /\ UNCHANGED <<container_tokens, query>>
    /\ UNCHANGED <<failure_counts, refresh_tasks, tasks, registered_buffers, has_project,
                   excerpts, calls>>
    /\ UNCHANGED <<cache_vars, token_vars, color_vars, convert_vars, iter_vars>>

\* A container just built by new, and the range of the query to come.
InitRange ==
    /\ InitOrch /\ InitCache /\ InitTokens /\ InitColorsFor("ThemePalette") /\ InitStylizer
    /\ InitIter
    /\ \E toks \in ConvertedTokens : container_tokens = sort_by_key(toks)
    /\ query \in Queries
    /\ in_range = <<>>

NextRange == TokensInRange

SpecRange == InitRange /\ [][NextRange]_vars

\* C11: tokens_in_range(a..b) returns exactly the tokens whose range.start lies
\* in [a, b), in their order in the container, duplicate starts included.
C11_ExactRange ==
    last.op = "tokens_in_range" =>
        in_range = SelectSeq(container_tokens,
                             LAMBDA t : query.start <= t.start /\ t.start < query.end)

(***************************************************************************)
(* VariableColorCache (editor/rainbow.rs).  A u64 is the sequence of its   *)
(* eight bytes, least significant first, so that the wrapping 64-bit       *)
(* arithmetic of the hash is computed exactly.  An identifier is the       *)
(* sequence of its bytes.                                                  *)
(***************************************************************************)
U64_BYTES == 8
BYTE == 256

\* 14695981039346656037 = 0xcbf29ce484222325
FNV_OFFSET == <<37, 35, 34, 132, 228, 156, 242, 203>>
\* 1099511628211 = 0x00000100000001b3
FNV_PRIME == <<179, 1, 0, 0, 0, 1, 0, 0>>
\* 11400714819323198485 = 0x9e3779b97f4a7c15
GOLDEN_RATIO_MULTIPLIER == <<21, 124, 74, 127, 185, 121, 55, 158>>

\* bit i (from 0) of the natural number n
bit(n, i) == (n \div (2 ^ i)) % 2

\* a ^ b on bytes
xor_byte(a, b) ==
    LET x(i) == IF bit(a, i) # bit(b, i) THEN 2 ^ i ELSE 0
    IN x(0) + x(1) + x(2) + x(3) + x(4) + x(5) + x(6) + x(7)

\* hash ^ (byte as u64)
xor_u64(hash, byte) == [hash EXCEPT ![1] = xor_byte(hash[1], byte)]

\* column k of the long multiplication of x by y, before carries
mul_column(x, y, k) ==
    LET term(i) == IF i <= k THEN x[i] * y[k + 1 - i] ELSE 0
    IN term(1) + term(2) + term(3) + term(4) + term(5) + term(6) + term(7) + term(8)

RECURSIVE mul_from(_, _, _, _)
mul_from(x, y, k, carry) ==
    IF k > U64_BYTES THEN <<>>
    ELSE LET total == mul_column(x, y, k) + carry
         IN <<total % BYTE>> \o mul_from(x, y, k + 1, total \div BYTE)

\* x.wrapping_mul(y)
wrapping_mul(x, y) == mul_from(x, y, 1, 0)

RECURSIVE fold_bytes(_, _, _)
fold_bytes(hash, bytes, i) ==
    IF i > Len(bytes) THEN hash
    ELSE fold_bytes(wrapping_mul(xor_u64(hash, bytes[i]), FNV_PRIME), bytes, i + 1)

\* hash_identifier(s): s.bytes().fold(FNV_OFFSET, |hash, byte| (hash ^ byte) * FNV_PRIME)
hash_identifier(bytes) == fold_bytes(FNV_OFFSET, bytes, 1)

RECURSIVE rem_from(_, _, _, _)
rem_from(x, k, n, acc) ==
    IF k = 0 THEN acc ELSE rem_from(x, k - 1, n, (acc * BYTE + x[k]) % n)

\* (x as usize) % n, for a 64-bit usize
rem_u64(x, n) == rem_from(x, U64_BYTES, n, 0)

\* calculate_color_index(hash, palette_size)
calculate_color_index(hash, palette_size) ==
    rem_u64(wrapping_mul(hash, GOLDEN_RATIO_MULTIPLIER), palette_size)

\* bit i (from 0) of the u64 x
bit_of(x, i) == bit(x[(i \div 8) + 1], i % 8)

\* the n bits of x from bit lo upwards, as a number
RECURSIVE bits_value(_, _, _)
bits_value(x, lo, n) ==
    IF n = 0 THEN 0 ELSE bit_of(x, lo) + 2 * bits_value(x, lo + 1, n - 1)

F32_MANTISSA_BITS == 24
U64_BITS == 64

\* x as f32: the nearest value with a 24-bit significand, ties to even, as the
\* record [mant, exp] that stands for mant * 2^exp.
u64_as_f32(x) ==
    LET ones == {i \in 0..(U64_BITS - 1) : bit_of(x, i) = 1}
    IN IF ones = {} THEN [mant |-> 0, exp |-> 0]
       ELSE LET top == CHOOSE i \in ones : \A j \in ones : j <= i
            IN IF top < F32_MANTISSA_BITS
               THEN [mant |-> bits_value(x, 0, F32_MANTISSA_BITS), exp |-> 0]
               ELSE LET shift == top - (F32_MANTISSA_BITS - 1)
                        m == bits_value(x, shift, F32_MANTISSA_BITS)
                        round == bit_of(x, shift - 1) = 1
                        sticky == \E i \in ones : i < shift - 1
                        up == round /\ (sticky \/ m % 2 = 1)
                    IN IF up /\ m + 1 = 2 ^ F32_MANTISSA_BITS
                       THEN [mant |-> 2 ^ (F32_MANTISSA_BITS - 1), exp |-> shift + 1]
                       ELSE [mant |-> IF up THEN m + 1 ELSE m, exp |-> shift]

\* hash_to_hue(hash): (distributed as f32) / (u64::MAX as f32); the divisor is 2^64.
hash_to_hue(hash) ==
    LET f == u64_as_f32(wrapping_mul(hash, GOLDEN_RATIO_MULTIPLIER))
    IN IF f.mant = 0 THEN f ELSE [mant |-> f.mant, exp |-> f.exp - U64_BITS]

\* A theme's rainbow palette: the colour of each slot, Nil for a slot without one.
ThemeA == [name |-> "A", palette |-> <<Some("a0"), Some("a1"), Some("a2")>>]
ThemeB == [name |-> "B", palette |-> <<Some("b0"), Nil>>]
Themes == {ThemeA, ThemeB}

\* theme.rainbow_palette_size()
rainbow_palette_size(theme) == Len(theme.palette)

\* theme.rainbow_color(index).and_then(|style| style.color)
rainbow_color(theme, index) == theme.palette[index + 1]

\* gpui::rgb(0xa6e3a1)
DefaultColor == "rgb(0xa6e3a1)"

Modes == {"ThemePalette", "DynamicHSL"}

\* generate_color_without_cache: the colour of the style (always present)
generate_color_without_cache(m, hash, theme) ==
    IF m = "ThemePalette"
    THEN LET index == calculate_color_index(hash, rainbow_palette_size(theme))
             slot == rainbow_color(theme, index)
         IN IF slot = Nil THEN DefaultColor ELSE slot[1]
    ELSE [h |-> hash_to_hue(hash), s |-> "0.70", l |-> "0.65", a |-> "1.0"]

\* max_entries: 120_000 in VariableColorCache::new, scaled down to a size the
\* cache can reach and exceed here.
max_entries == 2

\* identifiers: "a", "b" and "xyz"
Identifiers == {<<97>>, <<98>>, <<120, 121, 122>>}

\* colors.get(&hash)
lookup(cs, hash) == IF hash \in DOMAIN cs THEN Some(cs[hash]) ELSE Nil

\* the number of shards of the DashMap: four per CPU, rounded up to a power of
\* two, in the crate; scaled down here
ShardCount == 2

\* the keys the callers use
Hashes == {hash_identifier(ident) : ident \in Identifiers}

\* The shard of a key is taken from the key's hash under the map's hasher,
\* which is seeded at random when the map is built: any assignment.  Here the
\* keys are spread over the first and the last shard in every way.
ShardMaps == [Hashes -> {0, ShardCount - 1}]

\* the keys shard k holds
shard_keys(cs, sh, k) == {hash \in DOMAIN cs : sh[hash] = k}

\* colors.clear() on shard k: the shard is emptied under its lock
colors_after_clear_shard(cs, sh, k) ==
    [hash \in DOMAIN cs \ shard_keys(cs, sh, k) |-> cs[hash]]

\* colors.len() >= max_entries, len being the sum colors.len() returned: the
\* warning is logged
limit_reached(len) == len >= max_entries

\* An insert that stores nothing.
colors_after_insert_dropped(cs, hash, color) == cs

\* colors.insert(hash, color)
colors_after_insert(cs, hash, color) ==
    [x \in DOMAIN cs \cup {hash} |-> IF x = hash THEN color ELSE cs[x]]

(***************************************************************************)
(* get_or_insert calls of several threads on the shared cache.  The call   *)
(* takes no lock: colors.get (rainbow.rs:32) and colors.insert (45) each   *)
(* lock the shard of the key, colors.len (39) and colors.clear (51) go     *)
(* through the shards in index order and lock one shard at a time; the     *)
(* steps of other threads may run between any two of these.  One clear()   *)
(* runs at a time.                                                         *)
(***************************************************************************)
Callers == {1, 2}

\* the thread that runs SemanticTokenStylizer::convert
ConvertCaller == 0

\* the running calls other than c that missed for the same hash with the same theme
racing(calls_, c) ==
    {p \in DOMAIN calls_ \ {c} : /\ calls_[p].hash = calls_[c].hash
                                 /\ calls_[p].theme.name = calls_[c].theme.name}

\* Caller c enters get_or_insert: colors.get(&hash) hits and the call returns,
\* or misses and the call goes on to colors.len().
BeginGetOrInsert(c, ident, theme) ==
    /\ c \notin DOMAIN color_calls
    /\ \E hash \in {hash_identifier(ident)} :
          IF lookup(colors, hash) # Nil
          THEN /\ last' = [op |-> "get_or_insert", ident |-> ident,
                           theme |-> theme.name, hash |-> hash,
                           color |-> lookup(colors, hash)[1], hit |-> TRUE,
                           warned |-> FALSE, peer |-> Nil, stale |-> FALSE]
               /\ seen' = seen \cup {[ident |-> ident, theme |-> theme.name,
                                      color |-> lookup(colors, hash)[1]]}
               /\ UNCHANGED color_calls
          ELSE /\ color_calls' =
                      [x \in DOMAIN color_calls \cup {c} |->
                          IF x = c THEN [ident |-> ident, theme |-> theme, hash |-> hash,
                                         pc |-> "len", shard |-> 0, len |-> 0,
                                         warned |-> FALSE, peer |-> Nil, stale |-> FALSE]
                          ELSE color_calls[x]]
               /\ last' = [op |-> "miss"]
               /\ UNCHANGED seen
    /\ UNCHANGED <<colors, mode, shards, clearing>>
    /\ UNCHANGED <<failure_counts, refresh_tasks, tasks, registered_buffers, has_project,
                   excerpts, calls>>
    /\ UNCHANGED <<cache_vars, token_vars, range_vars, convert_vars, iter_vars>>

\* Caller c, after its miss, is in colors.len(): it adds the length of the next
\* shard to its sum and, after the last shard, logs the warning when the sum
\* has reached the limit.
CheckLimit(c) ==
    /\ c \in DOMAIN color_calls
    /\ color_calls[c].pc = "len"
    /\ \E call \in {color_calls[c]} :
       \E len \in {call.len + Cardinality(shard_keys(colors, shards, call.shard))} :
          color_calls' =
              [color_calls EXCEPT ![c] =
                  IF call.shard + 1 < ShardCount
                  THEN [call EXCEPT !.shard = call.shard + 1, !.len = len]
                  ELSE [call EXCEPT !.pc = "insert", !.shard = 0, !.len = 0,
                                    !.warned = limit_reached(len)]]
    /\ last' = [op |-> "len"]
    /\ UNCHANGED <<colors, mode, shards, clearing, seen>>
    /\ UNCHANGED <<failure_counts, refresh_tasks, tasks, registered_buffers, has_project,
                   excerpts, calls>>
    /\ UNCHANGED <<cache_vars, token_vars, range_vars, convert_vars, iter_vars>>

\* what caller c's colors.insert leaves: the colour it returns, the map, the
\* running calls and the history.
\* peer (history): the colour a racing call returned before this one; stale
\* (history): a clear() ran between the call's get and its insert.
insert_by(c) ==
    LET call == color_calls[c]
        color == generate_color_without_cache(mode, call.hash, call.theme)
    IN [color |-> color,
        colors |-> colors_after_insert(colors, call.hash, color),
        color_calls |-> [x \in DOMAIN color_calls \ {c} |->
                            IF x \in racing(color_calls, c)
                            THEN [color_calls[x] EXCEPT !.peer = Some(color)]
                            ELSE color_calls[x]],
        seen |-> seen \cup {[ident |-> call.ident, theme |-> call.theme.name,
                             color |-> color]},
        last |-> [op |-> "get_or_insert", ident |-> call.ident,
                  theme |-> call.theme.name, hash |-> call.hash, color |-> color,
                  hit |-> FALSE, warned |-> call.warned, peer |-> call.peer,
                  stale |-> call.stale]]

\* Caller c computes the colour, inserts it and returns it.
InsertColor(c) ==
    /\ c \in DOMAIN color_calls
    /\ color_calls[c].pc = "insert"
    /\ \E r \in {insert_by(c)} :
          /\ colors' = r.colors
          /\ color_calls' = r.color_calls
          /\ seen' = r.seen
          /\ last' = r.last
    /\ UNCHANGED <<mode, shards, clearing>>
    /\ UNCHANGED <<failure_counts, refresh_tasks, tasks, registered_buffers, has_project,
                   excerpts, calls>>
    /\ UNCHANGED <<cache_vars, token_vars, range_vars, convert_vars, iter_vars>>

\* clear(): the next shard is emptied, the first one when no clear() is
\* running; after the last shard the call returns.  The get_or_insert calls
\* that are between their get and their insert go on.
ClearColors ==
    /\ \E k \in {IF clearing = Nil THEN 0 ELSE clearing[1]} :
          /\ colors' = colors_after_clear_shard(colors, shards, k)
          /\ clearing' = IF k + 1 < ShardCount THEN Some(k + 1) ELSE Nil
          /\ color_calls' = IF k + 1 < ShardCount THEN color_calls
                            ELSE [x \in DOMAIN color_calls |->
                                     [color_calls[x] EXCEPT !.stale = TRUE]]
          /\ last' = [op |-> "clear_colors", returned |-> ~(k + 1 < ShardCount)]
    /\ seen' = {}
    /\ UNCHANGED <<mode, shards>>
    /\ UNCHANGED <<failure_counts, refresh_tasks, tasks, registered_buffers, has_project,
                   excerpts, calls>>
    /\ UNCHANGED <<cache_vars, token_vars, range_vars, convert_vars, iter_vars>>

InitColors ==
    /\ InitOrch /\ InitCache /\ InitTokens /\ InitContainer /\ InitStylizer /\ InitIter
    /\ colors = Empty
    /\ mode \in Modes
    /\ shards \in ShardMaps
    /\ clearing = Nil
    /\ color_calls = Empty
    /\ seen = {}

\* the identifiers a caller asks for: the second thread races for "b"
IdentifiersOf(c) == IF c = 1 THEN Identifiers ELSE {<<98>>}

\* the themes a caller passes: the second thread races with either theme
ThemesOf(c) == IF c = 1 THEN {ThemeA} ELSE Themes

NextColorRace ==
    \/ \E c \in Callers : \E ident \in IdentifiersOf(c) : \E theme \in ThemesOf(c) :
           BeginGetOrInsert(c, ident, theme)
    \/ \E c \in Callers : CheckLimit(c)
    \/ \E c \in Callers : InsertColor(c)
    \/ ClearColors

SpecColorRace == InitColors /\ [][NextColorRace]_vars

\* C12: a get_or_insert call that finds a colour stored for the identifier's
\* hash, while no clear() is running, returns the colour that every call for
\* the identifier with the same theme returned since the last clear() returned
\* (each of them had returned before this call looked the hash up), and leaves
\* the stored colour as it is.
C12_ColourStable ==
    [][(last'.op = "get_or_insert" /\ last'.hit /\ clearing = Nil) =>
          /\ \A r \in seen : (r.ident = last'.ident /\ r.theme = last'.theme)
                                 => r.color = last'.color
          /\ last'.color = colors[last'.hash]
          /\ colors' = colors]_vars

\* C13: get_or_insert never removes or replaces an entry and always leaves
\* an entry for the identifier's hash, also when the cache already holds
\* max_entries entries or more; only clear() makes the set of hashes smaller.
C13_CapacityAdvisory ==
    [][/\ last'.op = "get_or_insert" =>
             /\ \A hash \in DOMAIN colors :
                    hash \in DOMAIN colors' /\ colors'[hash] = colors[hash]
             /\ last'.hash \in DOMAIN colors'
       /\ last'.op # "clear_colors" => DOMAIN colors \subseteq DOMAIN colors']_vars

\* C14: of two get_or_insert calls for one identifier, theme and mode that
\* both miss before either inserts, the second to insert returns the colour
\* the first returned, and the entry for the hash then holds that colour.
C14_BenignRace ==
    (last.op = "get_or_insert" /\ ~last.hit /\ last.peer # Nil) =>
        /\ last.color = last.peer[1]
        /\ last.hash \in DOMAIN colors
        /\ colors[last.hash] = last.color

\* The second of two racing calls has inserted over the entry of the first.
C14_Witness ==
    /\ last.op = "get_or_insert"
    /\ ~last.hit
    /\ last.peer # Nil
    /\ mode = "ThemePalette"
    /\ last.color # DefaultColor
    /\ colors[last.hash] = last.peer[1]
    /\ color_calls = Empty

(***************************************************************************)
(* Effects of the BufferSemanticTokens operations (SpecCacheOps).          *)
(***************************************************************************)
\* SpecCacheOps: the operations on a cache that has at most one fetch running
\* at a time; a request either attaches or finds no fetch running.
NextCacheOps ==
    \/ \E c \in ChunkSet :
           /\ in_flight = {} \/ fetched_tokens(fetches_by_chunk, c) # Nil
           /\ Request(c)
    \/ \E f \in in_flight : FetchDone(f)
    \/ \E c \in ChunkSet : \E server \in CacheServers : \E toks \in TokenValues :
       \E rid \in ResultIds \cup {None} : InsertNewTokens(c, server, toks, rid)
    \/ \E server \in CacheServers : RemoveServerData(server)
    \/ \E keep \in {in_flight, {}} : Clear(keep)

SpecCacheOps == InitCacheSpec /\ [][NextCacheOps]_vars

\* the per-server map cached_tokens reports for chunk c: Empty when it reports none
tokens_map(tbc, c) == IF cached_tokens(tbc, c) = Nil THEN Empty ELSE cached_tokens(tbc, c)[1]

\* C15: after insert_new_tokens(chunk, server, tokens, resultId),
\* cached_tokens(chunk) maps server to tokens; result_id(server) is resultId
\* when one was given and is what it was before otherwise; the entries of the
\* other servers in the chunk, the cached tokens of every other chunk and every
\* fetch slot are unchanged.
C15_InsertEffect ==
    [][last'.op = "insert_new_tokens" =>
       LET c == buffer_chunks[last'.chunk + 1]
           server == last'.server
           before == tokens_map(tokens_by_chunk, c)
           after == tokens_map(tokens_by_chunk', c)
       IN /\ cached_tokens(tokens_by_chunk', c) # Nil
          /\ server \in DOMAIN after
          /\ after[server] = last'.tokens
          /\ result_id(result_ids', server) =
                 IF last'.result_id # None THEN last'.result_id
                 ELSE result_id(result_ids, server)
          /\ DOMAIN after \ {server} = DOMAIN before \ {server}
          /\ \A other \in DOMAIN before \ {server} : after[other] = before[other]
          /\ \A i \in DOMAIN buffer_chunks :
                 /\ i # last'.chunk + 1 =>
                        cached_tokens(tokens_by_chunk', buffer_chunks[i])
                            = cached_tokens(tokens_by_chunk, buffer_chunks[i])
                 /\ fetched_tokens(fetches_by_chunk', buffer_chunks[i])
                        = fetched_tokens(fetches_by_chunk, buffer_chunks[i])
      ]_vars

\* Tokens were inserted for a server into a chunk that holds another server's
\* tokens too, next to a second chunk with cached tokens, a recorded result id
\* and a fetch in a slot.
C15_Witness ==
    /\ last.op = "insert_new_tokens"
    /\ last.result_id = None
    /\ Len(buffer_chunks) = 2
    /\ DOMAIN tokens_map(tokens_by_chunk, buffer_chunks[last.chunk + 1]) = CacheServers
    /\ \A d \in ChunkSet : cached_tokens(tokens_by_chunk, d) # Nil
    /\ last.server \in DOMAIN result_ids
    /\ \E d \in ChunkSet : fetched_tokens(fetches_by_chunk, d) # Nil

\* C16: after remove_server_data(s) no chunk's cached map has an entry for s
\* and result_id(s) is absent; the cached tokens and the result ids of every
\* other server are unchanged in every chunk.
C16_RemoveEffect ==
    [][last'.op = "remove_server_data" =>
          /\ \A c \in ChunkSet : last'.server \notin DOMAIN tokens_map(tokens_by_chunk', c)
          /\ result_id(result_ids', last'.server) = None
          /\ \A other \in CacheServers \ {last'.server} :
                /\ result_id(result_ids', other) = result_id(result_ids, other)
                /\ \A c \in ChunkSet :
                      /\ other \in DOMAIN tokens_map(tokens_by_chunk', c)
                             <=> other \in DOMAIN tokens_map(tokens_by_chunk, c)
                      /\ other \in DOMAIN tokens_map(tokens_by_chunk, c) =>
                             tokens_map(tokens_by_chunk', c)[other]
                                 = tokens_map(tokens_by_chunk, c)[other]
      ]_vars

\* A server's data was removed while another server keeps tokens and a
\* result id.
C16_Witness ==
    /\ last.op = "remove_server_data"
    /\ \E other \in CacheServers \ {last.server} :
          /\ other \in DOMAIN result_ids
          /\ \E c \in ChunkSet : other \in DOMAIN tokens_map(tokens_by_chunk, c)
    /\ \E c \in ChunkSet : /\ cached_tokens(tokens_by_chunk, c) # Nil
                           /\ tokens_map(tokens_by_chunk, c) = Empty

\* C17: after clear() cached_tokens is none for every chunk, every fetch slot
\* is empty and no server has a result id, while the chunks are what they were.
C17_ClearEffect ==
    [][last'.op = "clear" =>
          /\ \A c \in ChunkSet : /\ cached_tokens(tokens_by_chunk', c) = Nil
                                 /\ fetched_tokens(fetches_by_chunk', c) = Nil
          /\ \A server \in CacheServers : result_id(result_ids', server) = None
          /\ buffer_chunks' = buffer_chunks
          /\ last_row' = last_row
      ]_vars

\* clear() ran on a cache of two chunks while a fetch was running; the fetch
\* outlives the clear.
C17_Witness ==
    /\ last.op = "clear"
    /\ Len(buffer_chunks) = 2
    /\ in_flight # {}
    /\ \A c \in ChunkSet : cached_tokens(tokens_by_chunk, c) = Nil

(***************************************************************************)
(* SemanticTokenStylizer (editor/semantic_tokens.rs).                      *)
(* A style is a HighlightStyle reduced to its colour and its font style;   *)
(* the type names are the values of the lsp::SemanticTokenType constants.  *)
(***************************************************************************)
\* HighlightStyle::default()
DefaultStyle == [color |-> Nil, font_style |-> Nil]

\* HighlightStyle { color: Some(color), ..Default::default() }
color_style(color) == [color |-> Some(color), font_style |-> Nil]

\* the mask collected for a modifier name: 1 << i of its last position i
mask_of(token_modifiers, modifier) ==
    LET i == CHOOSE i \in DOMAIN token_modifiers :
                 /\ token_modifiers[i] = modifier
                 /\ \A j \in DOMAIN token_modifiers : token_modifiers[j] = modifier => j <= i
    IN 2 ^ (i - 1)

\* SemanticTokenStylizer::new(legend, rainbow_config)
new_stylizer(legend, rainbow_config) ==
    [token_types |-> legend.token_types,
     modifier_mask |-> [m \in {legend.token_modifiers[i] : i \in DOMAIN legend.token_modifiers}
                           |-> mask_of(legend.token_modifiers, m)],
     rainbow_enabled |-> rainbow_config.enabled,
     rainbow_token_types |-> rainbow_config.token_types]

\* token_type: the name at the index, none past the end of the legend
token_type(st, ix) ==
    IF ix < Len(st.token_types) THEN Some(st.token_types[ix + 1]) ELSE Nil

\* has_modifier: false for a name the legend does not hold
has_modifier(st, token_modifiers, modifier) ==
    IF modifier \notin DOMAIN st.modifier_mask
    THEN FALSE
    ELSE (token_modifiers \div st.modifier_mask[modifier]) % 2 = 1

\* A closure that matches the Variable class by the type name alone.
rainbow_type_matches_by_name(st, rainbow_type, name, modifiers) ==
    IF rainbow_type = "Parameter" THEN name = "parameter"
    ELSE IF rainbow_type = "Variable" THEN name = "variable"
    ELSE name = "property"

\* the closure of any() at lines 182-194
rainbow_type_matches(st, rainbow_type, name, modifiers) ==
    IF rainbow_type = "Parameter" THEN name = "parameter"
    ELSE IF rainbow_type = "Variable"
         THEN /\ name = "variable"
              /\ ~has_modifier(st, modifiers, "defaultLibrary")
              /\ ~has_modifier(st, modifiers, "constant")
         ELSE name = "property"

should_apply_rainbow(st, name, modifiers) ==
    \E i \in DOMAIN st.rainbow_token_types :
        rainbow_type_matches(st, st.rainbow_token_types[i], name, modifiers)

\* buffer.text_for_range(range).collect()
text_for_range(text, range) == SubSeq(text, range.start + 1, range.end)

\* apply_rainbow up to its cache call (lines 157-160): none without a cache or a
\* theme, else Some(the identifier handed to cache.get_or_insert)
apply_rainbow_identifier(text, range, has_cache, theme) ==
    IF ~has_cache \/ theme = Nil THEN Nil ELSE Some(text_for_range(text, range))

\* apply_rainbow after its cache call (lines 161-163): the style get_or_insert
\* returned, which always carries its colour
apply_rainbow_style(color) == Some(color_style(color))

declared(st, m) == has_modifier(st, m, "declaration") \/ has_modifier(st, m, "definition")

\* the match at lines 204-357: Some(chain of theme keys), none for an unknown name
choices(st, name, m) ==
    IF name = "namespace" THEN Some(<<"namespace", "module", "type">>)
    ELSE IF name = "class"
    THEN Some(<<"type.class.definition", "type.definition", "type.class", "class", "type">>)
    ELSE IF name = "enum" /\ declared(st, m)
    THEN Some(<<"type.enum.definition", "type.definition", "type.enum", "enum", "type">>)
    ELSE IF name = "enum" THEN Some(<<"type.enum", "enum", "type">>)
    ELSE IF name = "interface" /\ declared(st, m)
    THEN Some(<<"type.interface.definition", "type.definition", "type.interface",
                "interface", "type">>)
    ELSE IF name = "interface" THEN Some(<<"type.interface", "interface", "type">>)
    ELSE IF name = "struct" /\ declared(st, m)
    THEN Some(<<"type.struct.definition", "type.definition", "type.struct", "struct", "type">>)
    ELSE IF name = "struct" THEN Some(<<"type.struct", "struct", "type">>)
    ELSE IF name = "typeParameter" /\ declared(st, m)
    THEN Some(<<"type.parameter.definition", "type.definition", "type.parameter", "type">>)
    ELSE IF name = "typeParameter" THEN Some(<<"type.parameter", "type">>)
    ELSE IF name = "type" /\ declared(st, m) THEN Some(<<"type.definition", "type">>)
    ELSE IF name = "type" THEN Some(<<"type">>)
    ELSE IF name = "parameter" THEN Some(<<"parameter">>)
    ELSE IF /\ name = "variable"
            /\ has_modifier(st, m, "defaultLibrary")
            /\ has_modifier(st, m, "constant")
    THEN Some(<<"constant.builtin", "constant">>)
    ELSE IF name = "variable" /\ has_modifier(st, m, "defaultLibrary")
    THEN Some(<<"variable.builtin", "variable">>)
    ELSE IF name = "variable" /\ has_modifier(st, m, "constant") THEN Some(<<"constant">>)
    ELSE IF name = "variable" THEN Some(<<"variable">>)
    ELSE IF name = "const" THEN Some(<<"const", "constant", "variable">>)
    ELSE IF name = "property" THEN Some(<<"property">>)
    ELSE IF name = "enumMember" THEN Some(<<"type.enum.member", "type.enum", "variant">>)
    ELSE IF name = "decorator" THEN Some(<<"function.decorator", "function.annotation">>)
    ELSE IF name = "function" /\ has_modifier(st, m, "defaultLibrary")
    THEN Some(<<"function.builtin", "function">>)
    ELSE IF name = "function" THEN Some(<<"function">>)
    ELSE IF name = "method" /\ has_modifier(st, m, "defaultLibrary")
    THEN Some(<<"function.builtin", "function.method", "function">>)
    ELSE IF name = "method" THEN Some(<<"function.method", "function">>)
    ELSE IF name = "macro" THEN Some(<<"function.macro", "function">>)
    ELSE IF name = "label" THEN Some(<<"label">>)
    ELSE IF name = "comment" /\ has_modifier(st, m, "documentation")
    THEN Some(<<"comment.documentation", "comment.doc", "comment">>)
    ELSE IF name = "comment" THEN Some(<<"comment">>)
    ELSE IF name = "string" THEN Some(<<"string">>)
    ELSE IF name = "keyword" THEN Some(<<"keyword">>)
    ELSE IF name = "number" THEN Some(<<"number">>)
    ELSE IF name = "regexp" THEN Some(<<"string.regexp", "string">>)
    ELSE IF name = "operator" THEN Some(<<"operator">>)
    ELSE IF name = "modifier" THEN Some(<<"keyword.modifier">>)
    ELSE IF name = "event" THEN Some(<<"type.event", "type">>)
    ELSE IF name = "lifetime" THEN Some(<<"symbol", "type.parameter", "type">>)
    ELSE Nil

\* theme.get_opt(choice): the style the theme holds for exactly this key
get_opt(theme, choice) ==
    IF choice \in DOMAIN theme.highlights THEN Some(theme.highlights[choice]) ELSE Nil

\* A loop that returns the style of the first key the theme holds, coloured or not.
RECURSIVE theme_style_from_first_present(_, _, _)
theme_style_from_first_present(theme, chain, i) ==
    IF i > Len(chain) THEN Nil
    ELSE LET style == get_opt(theme, chain[i])
         IN IF style # Nil
            THEN style
            ELSE theme_style_from_first_present(theme, chain, i + 1)

\* the loop at lines 361-367, from position i of the chain
RECURSIVE theme_style_from(_, _, _)
theme_style_from(theme, chain, i) ==
    IF i > Len(chain) THEN Nil
    ELSE LET style == get_opt(theme, chain[i])
         IN IF style # Nil /\ style[1].color # Nil
            THEN style
            ELSE theme_style_from(theme, chain, i + 1)

\* lines 204-371, what convert does when rainbow did not return
convert_by_theme(st, theme, name, modifiers) ==
    LET chain == choices(st, name, modifiers)
    IN IF chain = Nil THEN Nil
       ELSE LET style == IF theme = Nil THEN Nil ELSE theme_style_from(theme[1], chain[1], 1)
            IN IF style # Nil THEN style ELSE Some(DefaultStyle)

\* convert up to the cache call (lines 175-197): Some(identifier) when rainbow
\* applies to the token and apply_rainbow reaches cache.get_or_insert, else none
rainbow_identifier(st, theme, token_type_ix, modifiers, text, range, has_cache) ==
    LET name == token_type(st, token_type_ix)
    IN IF name = Nil THEN Nil
       ELSE IF /\ st.rainbow_enabled /\ has_cache /\ theme # Nil
               /\ should_apply_rainbow(st, name[1], modifiers)
       THEN apply_rainbow_identifier(text, range, has_cache, theme)
       ELSE Nil

\* A convert that leaves the style to the theme whatever rainbow returned.
convert_result_theme_first(st, theme, token_type_ix, modifiers, rainbow) ==
    LET name == token_type(st, token_type_ix)
    IN IF name = Nil THEN Nil
       ELSE convert_by_theme(st, theme, name[1], modifiers)

\* what convert returns, given what apply_rainbow returned (none when it was
\* not called): none or Some(style)
convert_result(st, theme, token_type_ix, modifiers, rainbow) ==
    LET name == token_type(st, token_type_ix)
    IN IF name = Nil THEN Nil
       ELSE IF rainbow # Nil THEN rainbow
       ELSE convert_by_theme(st, theme, name[1], modifiers)

(***************************************************************************)
(* SpecConvert: one convert call on a drawn stylizer, token, theme and     *)
(* colour cache.                                                           *)
(***************************************************************************)
\* every token-type name convert knows, and one it does not
LegendA == [token_types |-> <<"namespace", "class", "enum", "interface", "struct",
                              "typeParameter", "type", "parameter", "variable", "const",
                              "property", "enumMember", "decorator", "function", "method",
                              "macro", "label", "comment", "string", "keyword", "number",
                              "regexp", "operator", "modifier", "event", "lifetime",
                              "custom">>,
            token_modifiers |-> <<"declaration", "defaultLibrary", "constant">>]
LegendB == [token_types |-> <<"variable", "comment", "enum", "parameter">>,
            token_modifiers |-> <<"definition", "documentation", "readonly">>]
Legends == {LegendA, LegendB}

\* the modifier bitsets of a token: every set of legend positions, and one
\* position past the legend
ModifierSets(legend) == 0 .. (2 ^ (Len(legend.token_modifiers) + 1) - 1)

RainbowConfigs ==
    {[enabled |-> FALSE, token_types |-> <<"Variable">>],
     [enabled |-> TRUE, token_types |-> <<>>],
     [enabled |-> TRUE, token_types |-> <<"Variable">>],
     [enabled |-> TRUE, token_types |-> <<"Parameter", "Property", "Variable">>]}

\* SyntaxTheme: the rainbow palette of ThemeA / ThemeB and the styles by key
SyntaxA == [name |-> ThemeA.name, palette |-> ThemeA.palette,
            highlights |-> [k \in {"variable", "variable.builtin", "constant", "type",
                                   "function", "comment", "parameter"} |->
                               IF k = "variable.builtin"
                               THEN [color |-> Nil, font_style |-> Some("italic")]
                               ELSE IF k = "variable"
                               THEN [color |-> Some("A.variable"), font_style |-> Some("italic")]
                               ELSE [color |-> Some(<<"A", k>>), font_style |-> Nil]]]
SyntaxB == [name |-> ThemeB.name, palette |-> ThemeB.palette,
            highlights |-> [k \in {"type.enum", "constant.builtin", "property", "string"} |->
                               [color |-> Some(<<"B", k>>), font_style |-> Nil]]]
SyntaxThemes == {SyntaxA, SyntaxB}

\* the buffer's text "a b xyz" and the token ranges on it
BufferText == <<97, 32, 98, 32, 120, 121, 122>>
TokenRanges == {[start |-> 0, end |-> 1], [start |-> 4, end |-> 7]}

\* the colour cache of the call: new, or after one get_or_insert("a", ThemeB)
CachesBefore(m) ==
    {Empty,
     colors_after_insert(Empty, hash_identifier(<<97>>),
                         generate_color_without_cache(m, hash_identifier(<<97>>), ThemeB))}

\* the shards of the call's cache: "a" in the first, the other keys in the last
ShardsBefore == [hash \in Hashes |-> IF hash = hash_identifier(<<97>>) THEN 0 ELSE ShardCount - 1]

\* the stylizer of the drawn call
StylizerOf(arg) == new_stylizer(arg.legend, arg.rainbow_config)

\* stylizer.convert(...) as SemanticTokenBufferContainer::new calls it, up to
\* its return or, when it calls cache.get_or_insert and colors.get misses, up to
\* that miss
ConvertBegin ==
    /\ last.op = "init"
    /\ convert_input # Nil
    /\ LET arg == convert_input[1]
           st == StylizerOf(arg)
           ident == rainbow_identifier(st, arg.theme, arg.token_type, arg.modifiers,
                                       BufferText, arg.range, arg.has_cache)
       IN IF ident = Nil
          THEN /\ converted' = convert_result(st, arg.theme, arg.token_type,
                                              arg.modifiers, Nil)
               /\ last' = [op |-> "convert", rainbow |-> Nil]
               /\ UNCHANGED <<color_calls, seen>>
          ELSE \E hash \in {hash_identifier(ident[1])} :
               IF lookup(colors, hash) # Nil
               THEN /\ converted' = convert_result(st, arg.theme, arg.token_type,
                                        arg.modifiers,
                                        apply_rainbow_style(lookup(colors, hash)[1]))
                    /\ last' = [op |-> "convert", rainbow |-> lookup(colors, hash),
                                hit |-> TRUE]
                    /\ seen' = seen \cup {[ident |-> ident[1], theme |-> arg.theme[1].name,
                                           color |-> lookup(colors, hash)[1]]}
                    /\ UNCHANGED color_calls
               ELSE /\ color_calls' =
                           [x \in DOMAIN color_calls \cup {ConvertCaller} |->
                               IF x = ConvertCaller
                               THEN [ident |-> ident[1], theme |-> arg.theme[1],
                                     hash |-> hash, pc |-> "len", shard |-> 0, len |-> 0,
                                     warned |-> FALSE, peer |-> Nil, stale |-> FALSE]
                               ELSE color_calls[x]]
                    /\ last' = [op |-> "miss"]
                    /\ UNCHANGED <<converted, seen>>
    /\ UNCHANGED <<convert_input, colors, mode, shards, clearing>>
    /\ UNCHANGED <<failure_counts, refresh_tasks, tasks, registered_buffers, has_project,
                   excerpts, calls>>
    /\ UNCHANGED <<cache_vars, token_vars, range_vars, iter_vars>>

\* convert from the colors.insert of its get_or_insert call to its return
ConvertEnd ==
    /\ ConvertCaller \in DOMAIN color_calls
    /\ color_calls[ConvertCaller].pc = "insert"
    /\ LET arg == convert_input[1]
       IN \E r \in {insert_by(ConvertCaller)} :
             /\ colors' = r.colors
             /\ color_calls' = r.color_calls
             /\ seen' = r.seen
             /\ converted' = convert_result(StylizerOf(arg), arg.theme, arg.token_type,
                                            arg.modifiers, apply_rainbow_style(r.color))
             /\ last' = [op |-> "convert", rainbow |-> Some(r.color), hit |-> FALSE]
    /\ UNCHANGED <<convert_input, mode, shards, clearing>>
    /\ UNCHANGED <<failure_counts, refresh_tasks, tasks, registered_buffers, has_project,
                   excerpts, calls>>
    /\ UNCHANGED <<cache_vars, token_vars, range_vars, iter_vars>>

\* convert is inside its get_or_insert call
ConvertInCache == ConvertCaller \in DOMAIN color_calls

InitConvert ==
    /\ InitOrch /\ InitCache /\ InitTokens /\ InitContainer /\ InitIter
    /\ converted = Nil
    /\ clearing = Nil
    /\ color_calls = Empty
    /\ seen = {}
    /\ \E legend \in Legends : \E rainbow_config \in RainbowConfigs :
       \E theme \in {Nil} \cup {Some(t) : t \in SyntaxThemes} :
       \E ix \in 0 .. Len(legend.token_types) : \E modifiers \in ModifierSets(legend) :
       \E range \in TokenRanges : \E has_cache \in BOOLEAN :
          convert_input = Some([legend |-> legend, rainbow_config |-> rainbow_config,
                                theme |-> theme, token_type |-> ix, modifiers |-> modifiers,
                                range |-> range, has_cache |-> has_cache])
    /\ IF convert_input[1].has_cache
       THEN /\ mode \in Modes
            /\ colors \in CachesBefore(mode)
            /\ shards = ShardsBefore
       ELSE /\ mode = "ThemePalette"
            /\ colors = Empty
            /\ shards = ShardsBefore

\* The convert call and, while it is inside get_or_insert, the calls of another
\* thread for the same identifier on the shared cache.  What other threads did
\* before convert's colors.get is in the drawn cache; clear() between the map
\* operations of a call is part of SpecColorRace.
NextConvert ==
    \/ ConvertBegin
    \/ CheckLimit(ConvertCaller)
    \/ ConvertEnd
    \/ \E theme \in Themes :
           /\ ConvertInCache
           /\ BeginGetOrInsert(1, color_calls[ConvertCaller].ident, theme)
    \/ ConvertInCache /\ CheckLimit(1)
    \/ ConvertInCache /\ InsertColor(1)

SpecConvert == InitConvert /\ [][NextConvert]_vars

\* C18: with rainbow enabled, the Variable class selected, a colour cache and a
\* theme supplied, convert of a `variable` token that carries neither
\* defaultLibrary nor constant returns the style get_or_insert produces for the
\* token's text, whatever the theme holds for "variable".
C18_RainbowPrecedence ==
    [][(/\ last'.op = "convert"
        /\ convert_input[1].rainbow_config.enabled
        /\ \E i \in DOMAIN convert_input[1].rainbow_config.token_types :
               convert_input[1].rainbow_config.token_types[i] = "Variable"
        /\ convert_input[1].has_cache
        /\ convert_input[1].theme # Nil
        /\ convert_input[1].token_type < Len(convert_input[1].legend.token_types)
        /\ convert_input[1].legend.token_types[convert_input[1].token_type + 1] = "variable"
        /\ \A i \in DOMAIN convert_input[1].legend.token_modifiers :
               convert_input[1].legend.token_modifiers[i] \in {"defaultLibrary", "constant"}
                   => (convert_input[1].modifiers \div 2 ^ (i - 1)) % 2 = 0)
       => LET arg == convert_input[1]
              hash == hash_identifier(text_for_range(BufferText, arg.range))
              computed == generate_color_without_cache(mode, hash, arg.theme[1])
          IN /\ last'.rainbow # Nil
             /\ converted' = Some(color_style(last'.rainbow[1]))
             /\ IF last'.hit
                THEN /\ lookup(colors, hash) = last'.rainbow
                     /\ colors' = colors
                ELSE /\ last'.rainbow = Some(computed)
                     /\ hash \in DOMAIN colors'
                     /\ colors'[hash] = computed
      ]_vars

\* A plain `variable` token with another modifier set was converted under a
\* theme that holds a coloured style for "variable", and the style returned
\* is the colour cache's, not the theme's.
C18_Witness ==
    /\ last.op = "convert"
    /\ convert_input[1].rainbow_config.enabled
    /\ convert_input[1].rainbow_config.token_types = <<"Parameter", "Property", "Variable">>
    /\ convert_input[1].has_cache
    /\ convert_input[1].theme = Some(SyntaxA)
    /\ get_opt(SyntaxA, "variable") # Nil
    /\ get_opt(SyntaxA, "variable")[1].color # Nil
    /\ convert_input[1].legend = LegendA
    /\ LegendA.token_types[convert_input[1].token_type + 1] = "variable"
    /\ convert_input[1].modifiers = 1
    /\ converted # Nil
    /\ converted # get_opt(SyntaxA, "variable")
    /\ converted[1].font_style = Nil
    /\ converted[1].color[1] = colors[hash_identifier(text_for_range(BufferText,
                                                        convert_input[1].range))]

(***************************************************************************)
(* SpecDecode: tokens() on a flat array of any length.                     *)
(***************************************************************************)
MaxData == 14   \* length of the flat array: two whole tokens and a remainder of four

DataValues == {0, 1}

RECURSIVE SeqsUpTo(_, _)
SeqsUpTo(S, n) ==
    IF n = 0 THEN {<<>>}
    ELSE LET shorter == SeqsUpTo(S, n - 1)
         IN shorter \cup {Append(q, x) : q \in {q \in shorter : Len(q) = n - 1}, x \in S}

\* SemanticTokens::from_full(data).tokens() collected
DecodeData ==
    /\ last.op = "init"
    /\ decoded' = decode_tokens(data)
    /\ last' = [op |-> "tokens"]
    /\ UNCHANGED <<abs_tokens, data>>
    /\ UNCHANGED <<failure_counts, refresh_tasks, tasks, registered_buffers, has_project,
                   excerpts, calls>>
    /\ UNCHANGED <<cache_vars, view_vars>>

InitDecode ==
    /\ InitOrch /\ InitCache /\ InitView
    /\ abs_tokens = <<>>
    /\ data \in SeqsUpTo(DataValues, MaxData)
    /\ decoded = <<>>

NextDecode == DecodeData

SpecDecode == InitDecode /\ [][NextDecode]_vars

\* C19: an array whose length is not a multiple of 5 decodes as its largest
\* prefix of whole 5-tuples: tokens() yields floor(len / 5) tokens, the ones
\* the prefix alone decodes to; the trailing 1 to 4 elements are ignored.
C19_WholeTuplesOnly ==
    (last.op = "tokens" /\ Len(data) % TOKEN_WIDTH # 0) =>
        /\ Len(decoded) = Len(data) \div TOKEN_WIDTH
        /\ decoded = decode_tokens(SubSeq(data, 1, TOKEN_WIDTH * (Len(data) \div TOKEN_WIDTH)))

\* Decoded: two whole tokens, the second on the first one's line, followed by
\* four elements that are not all zero.
C19_Witness ==
    /\ last.op = "tokens"
    /\ Len(data) = 2 * TOKEN_WIDTH + 4
    /\ Len(decoded) = 2
    /\ decoded[2][1] = decoded[1][1]
    /\ decoded[2][2] > decoded[1][2]
    /\ \E i \in 2 * TOKEN_WIDTH + 1 .. Len(data) : data[i] # 0

(***************************************************************************)
(* The BufferEdited trigger (SpecEdited).                                  *)
(***************************************************************************)
\* C20: BufferEdited(e) spawns a task for exactly the visible buffers that
\* have e's language, are registered and are not suppressed, and leaves the
\* tasks and failure counts of the buffers of other languages as they were;
\* when the multibuffer does not know e or e has no language, no task is
\* spawned or cancelled.
C20_EditedLanguageOnly ==
    [][last'.op = "observed" =>
       LET e == last'.reason.buffer
           visible == {ExcerptBuffer(x) : x \in last'.vis}
           spawned == {t.buf : t \in tasks' \ tasks}
       IN IF e \in Buffers /\ Language(e) # None
          THEN /\ spawned = {b \in visible : /\ Language(b) = Language(e)
                                             /\ b \in registered_buffers'
                                             /\ ~should_skip_buffer(failure_counts, b)}
               /\ \A b \in Buffers :
                     Language(b) # Language(e) =>
                        /\ TasksOf(tasks', b) = TasksOf(tasks, b)
                        /\ (b \in DOMAIN refresh_tasks' <=> b \in DOMAIN refresh_tasks)
                        /\ b \in DOMAIN refresh_tasks => refresh_tasks'[b] = refresh_tasks[b]
                        /\ failure_count(failure_counts', b) = failure_count(failure_counts, b)
          ELSE /\ tasks' = tasks
               /\ refresh_tasks' = refresh_tasks
      ]_vars

\* Buffer 1 was edited with every excerpt visible: buffers 1 and 2, which
\* share its language, wait on the edit debounce, while buffer 3, of another
\* language and with a recorded failure, is still at its language-server request.
C20_Witness ==
    /\ last.op = "observed"
    /\ last.reason.buffer = 1
    /\ last.vis = EditedExcerpts
    /\ \A b \in {1, 2} : \E t \in TasksOf(tasks, b) :
           t.pc = "start" /\ t.debounce = Some(InvalidateDebounce)
    /\ \E t \in TasksOf(tasks, 3) : t.pc = "lsp"
    /\ failure_count(failure_counts, 3) > 0

(***************************************************************************)
(* The triggers of refresh_semantic_tokens (SpecObserved).                 *)
(***************************************************************************)
\* C21: NewLinesShown maps to the strategy None, which does not invalidate;
\* BufferEdited and SettingsChanged map to BufferEdited and
\* RefreshRequested(s) to RefreshRequested(s), which invalidate; without a
\* project there is no strategy and the trigger changes no state.
C21_StrategyMapping ==
    [][last'.op = "observed" =>
       LET reason == last'.reason
           strategy == invalidation_strategy(has_project, reason)
       IN IF ~has_project
          THEN /\ strategy = NoStrategy
               /\ tasks' = tasks
               /\ refresh_tasks' = refresh_tasks
               /\ registered_buffers' = registered_buffers
               /\ failure_counts' = failure_counts
          ELSE /\ reason.kind = "NewLinesShown" =>
                     strategy = [kind |-> "None"] /\ ~should_invalidate(strategy)
               /\ reason.kind \in {"BufferEdited", "SettingsChanged"} =>
                     strategy = [kind |-> "BufferEdited"] /\ should_invalidate(strategy)
               /\ reason.kind = "RefreshRequested" =>
                     /\ strategy = [kind |-> "RefreshRequested", server |-> reason.server]
                     /\ should_invalidate(strategy)
      ]_vars

\* An editor without a project saw SettingsChanged with every excerpt
\* visible: no buffer is registered and no task exists.
C21_Witness ==
    /\ last.op = "observed"
    /\ ~has_project
    /\ last.reason.kind = "SettingsChanged"
    /\ last.vis = SpecExcerpts
    /\ tasks = {}
    /\ registered_buffers = {}

\* C22: a task spawned by BufferEdited waits invalidate_debounce (50 ms), one
\* spawned by NewLinesShown waits append_debounce (100 ms), one spawned by
\* RefreshRequested or SettingsChanged waits for nothing; a task whose handle
\* was replaced is no longer alive, and only a live task that is still
\* before its language-server call issues one.
C22_DebounceByTrigger ==
    [][/\ last'.op = "observed" =>
             \A t \in tasks' \ tasks :
                 /\ t.pc = "start"
                 /\ t.debounce =
                        IF last'.reason.kind = "BufferEdited" THEN Some(50)
                        ELSE IF last'.reason.kind = "NewLinesShown" THEN Some(100)
                        ELSE Nil
       /\ \A b \in DOMAIN refresh_tasks :
             (b \in DOMAIN refresh_tasks' /\ refresh_tasks'[b] # refresh_tasks[b]) =>
                 \A t \in tasks : t.buf = b => t \notin tasks'
       /\ \A t \in tasks' :
             (t.pc = "lsp" /\ t \notin tasks) =>
                 \E u \in tasks : /\ u.buf = t.buf /\ u.seq = t.seq /\ u.pc = "start"
                                  /\ u.buf \in DOMAIN refresh_tasks
                                  /\ refresh_tasks[u.buf] = u.seq
      ]_vars

\* NewLinesShown replaced the live tasks of the buffers 1 and 3: each new task
\* carries the second identity of its buffer and waits the append debounce,
\* and the tasks they replaced are gone.
C22_Witness ==
    /\ last.op = "observed"
    /\ last.reason.kind = "NewLinesShown"
    /\ \A b \in {1, 3} :
          /\ b \in DOMAIN refresh_tasks
          /\ refresh_tasks[b] = 2
          /\ TasksOf(tasks, b) = {[buf |-> b, seq |-> 2, pc |-> "start",
                                   debounce |-> Some(AppendDebounce)]}

\* C23: on a trigger other than BufferEdited every visible buffer that is
\* registered after the registration attempt, is not suppressed and has no
\* active task gets exactly one new task, whatever tasks exist and however
\* many of its excerpts are visible; a visible buffer that is still
\* unregistered gets none.
C23_VisibleGetOneTask ==
    [][(last'.op = "observed" /\ last'.reason.kind # "BufferEdited") =>
       \A b \in {ExcerptBuffer(x) : x \in last'.vis} :
          /\ (/\ b \in registered_buffers'
              /\ ~should_skip_buffer(failure_counts, b)
              /\ b \notin DOMAIN refresh_tasks) =>
                 /\ Cardinality({t \in tasks' \ tasks : t.buf = b}) = 1
                 /\ b \in DOMAIN refresh_tasks'
                 /\ \A t \in tasks' \ tasks : t.buf = b => refresh_tasks'[b] = t.seq
          /\ b \notin registered_buffers' =>
                 /\ {t \in tasks' \ tasks : t.buf = b} = {}
                 /\ b \notin DOMAIN refresh_tasks'
      ]_vars

\* SettingsChanged with both excerpts of buffer 1 and the excerpt of buffer 3
\* visible: each of the two buffers has exactly one task, not yet at its
\* language-server call and without a debounce.
C23_Witness ==
    /\ last.op = "observed"
    /\ last.reason.kind = "SettingsChanged"
    /\ last.vis = SpecExcerpts
    /\ \A b \in {1, 3} :
          /\ Cardinality(TasksOf(tasks, b)) = 1
          /\ \A t \in TasksOf(tasks, b) : t.pc = "start" /\ t.debounce = Nil

\* C24: NewLinesShown does not invalidate and still replaces: every collected
\* buffer that has an active task loses that task and has a new one, waiting
\* the append debounce, stored in its place.
C24_ScrollReplaces ==
    [][(last'.op = "observed" /\ last'.reason.kind = "NewLinesShown" /\ has_project) =>
       /\ ~should_invalidate(invalidation_strategy(has_project, last'.reason))
       /\ \A b \in {ExcerptBuffer(x) : x \in last'.vis} :
             (/\ b \in registered_buffers'
              /\ ~should_skip_buffer(failure_counts, b)
              /\ b \in DOMAIN refresh_tasks) =>
                 /\ \A t \in TasksOf(tasks, b) : t \notin tasks'
                 /\ b \in DOMAIN refresh_tasks'
                 /\ refresh_tasks'[b] # refresh_tasks[b]
                 /\ TasksOf(tasks', b) = {[buf |-> b, seq |-> refresh_tasks'[b],
                                           pc |-> "start", debounce |-> Some(AppendDebounce)]}
      ]_vars

\* NewLinesShown with only excerpt 2 of buffer 1 visible replaced the task of
\* buffer 1, while the task of buffer 3, which is out of view, is still at its
\* language-server call.
C24_Witness ==
    /\ last.op = "observed"
    /\ last.reason.kind = "NewLinesShown"
    /\ last.vis = {2}
    /\ TasksOf(tasks, 1) = {[buf |-> 1, seq |-> 2, pc |-> "start",
                             debounce |-> Some(AppendDebounce)]}
    /\ \E t \in TasksOf(tasks, 3) : t.pc = "lsp"

(***************************************************************************)
(* SemanticTokensIter over u32 values (lsp_store/semantic_tokens.rs).      *)
(* A u32 is the pair <<low 16 bits, high 16 bits>>.  An overflowing `+`    *)
(* wraps in a build without overflow checks and panics in one with them.   *)
(***************************************************************************)
LIMB == 65536

U32_ZERO == <<0, 0>>
U32_ONE  == <<1, 0>>
U32_MAX  == <<LIMB - 1, LIMB - 1>>

Builds == {"wrapping", "checked"}

\* a + b on u32: the wrapped sum and whether it overflowed
add_u32(a, b) ==
    LET lo == a[1] + b[1]
        hi == a[2] + b[2] + (lo \div LIMB)
    IN [value |-> <<lo % LIMB, hi % LIMB>>, overflow |-> hi >= LIMB]

\* a <= b on u32
le_u32(a, b) == a[2] < b[2] \/ (a[2] = b[2] /\ a[1] <= b[1])

\* tokens(): a new iterator, prev: None, at the first chunk
new_iter == [prev |-> Nil, pos |-> 1, state |-> "running"]

\* A next() that adds delta_start to the previous start on every line.
iter_next_start_always_relative(build, d, it) ==
    IF it.pos > chunks_exact_len(d)
    THEN [item |-> Nil, iter |-> [it EXCEPT !.state = "done"]]
    ELSE LET chunk == chunk_at(d, it.pos)
             line == IF it.prev # Nil
                     THEN add_u32(it.prev[1][1], chunk[1])
                     ELSE [value |-> chunk[1], overflow |-> FALSE]
             start == IF it.prev # Nil
                      THEN add_u32(it.prev[1][2], chunk[2])
                      ELSE [value |-> chunk[2], overflow |-> FALSE]
         IN IF build = "checked" /\ (line.overflow \/ start.overflow)
            THEN [item |-> Nil, iter |-> [it EXCEPT !.state = "panicked"]]
            ELSE [item |-> Some(<<line.value, start.value, chunk[3], chunk[4], chunk[5]>>),
                  iter |-> [it EXCEPT !.prev = Some(<<line.value, start.value>>),
                                      !.pos = it.pos + 1]]

\* SemanticTokensIter::next on iterator it over d: [item, iter]; item is Nil at
\* the end of the chunks.  A panic leaves the iterator in state "panicked".
iter_next(build, d, it) ==
    IF it.pos > chunks_exact_len(d)
    THEN [item |-> Nil, iter |-> [it EXCEPT !.state = "done"]]
    ELSE LET chunk == chunk_at(d, it.pos)
             delta_line == chunk[1]
             delta_start == chunk[2]
             line == IF it.prev # Nil
                     THEN add_u32(it.prev[1][1], delta_line)
                     ELSE [value |-> delta_line, overflow |-> FALSE]
             start == IF it.prev # Nil /\ delta_line = U32_ZERO
                      THEN add_u32(it.prev[1][2], delta_start)
                      ELSE [value |-> delta_start, overflow |-> FALSE]
         IN IF build = "checked" /\ (line.overflow \/ start.overflow)
            THEN [item |-> Nil, iter |-> [it EXCEPT !.state = "panicked"]]
            ELSE [item |-> Some(<<line.value, start.value, chunk[3], chunk[4], chunk[5]>>),
                  iter |-> [it EXCEPT !.prev = Some(<<line.value, start.value>>),
                                      !.pos = it.pos + 1]]

(***************************************************************************)
(* SpecIter: tokens() called up to MaxPasses times on one unchanged        *)
(* stream, each iterator run to its end.                                   *)
(***************************************************************************)
MaxPasses == 2   \* tokens() calls on the stream

U32Values == {U32_ZERO, U32_ONE, U32_MAX}

\* one token of the stream: deltas from U32Values, a fixed payload
StreamTuples == {<<dl, ds, <<3, 0>>, U32_ONE, U32_ZERO>> : dl \in U32Values, ds \in U32Values}

RECURSIVE flatten(_)
flatten(tuples) == IF tuples = <<>> THEN <<>> ELSE Head(tuples) \o flatten(Tail(tuples))

\* self.tokens(): allowed when no iterator is running
TokensCall ==
    /\ IF iter = Nil THEN TRUE ELSE iter[1].state = "done"
    /\ Len(passes) < MaxPasses
    /\ iter' = Some(new_iter)
    /\ decoded' = <<>>
    /\ last' = [op |-> "tokens_call", build |-> last.build]
    /\ UNCHANGED <<abs_tokens, data, passes>>
    /\ UNCHANGED <<failure_counts, refresh_tasks, tasks, registered_buffers, has_project,
                   excerpts, calls>>
    /\ UNCHANGED <<cache_vars, range_vars, color_vars, convert_vars>>

\* one next() on the running iterator
IterNext ==
    /\ iter # Nil
    /\ iter[1].state = "running"
    /\ \E r \in {iter_next(last.build, data, iter[1])} :
          /\ iter' = Some(r.iter)
          /\ decoded' = IF r.item = Nil THEN decoded ELSE Append(decoded, r.item[1])
          /\ passes' = IF r.iter.state = "done" THEN Append(passes, decoded) ELSE passes
          /\ last' = [op |-> "next", build |-> last.build]
    /\ UNCHANGED <<abs_tokens, data>>
    /\ UNCHANGED <<failure_counts, refresh_tasks, tasks, registered_buffers, has_project,
                   excerpts, calls>>
    /\ UNCHANGED <<cache_vars, range_vars, color_vars, convert_vars>>

InitIterSpec ==
    /\ InitCache /\ InitContainer /\ InitColorsFor("ThemePalette") /\ InitStylizer /\ InitIter
    /\ failure_counts = Empty
    /\ refresh_tasks = Empty
    /\ tasks = {}
    /\ registered_buffers = {}
    /\ has_project = TRUE
    /\ excerpts = SpecExcerpts
    /\ calls = [b \in Buffers |-> 0]
    /\ \E build \in Builds : last = [op |-> "init", build |-> build]
    /\ abs_tokens = <<>>
    /\ \E tuples \in SeqsUpTo(StreamTuples, MaxTokens) : data = flatten(tuples)
    /\ decoded = <<>>

NextIter == TokensCall \/ IterNext

SpecIter == InitIterSpec /\ [][NextIter]_vars

(***************************************************************************)
(* SemanticTokens::apply (lsp_store/semantic_tokens.rs:53-59).             *)
(***************************************************************************)
\* A splice that inserts the items and removes nothing.
splice_insert_only(d, start, end, items) ==
    IF start > end \/ end > Len(d)
    THEN Nil
    ELSE Some(SubSeq(d, 1, start) \o items \o SubSeq(d, start + 1, Len(d)))

\* Vec::splice(start..end, items): Nil when the range is not inside the vector
\* (the call panics), else the vector with the range replaced by the items.
splice(d, start, end, items) ==
    IF start > end \/ end > Len(d)
    THEN Nil
    ELSE Some(SubSeq(d, 1, start) \o items \o SubSeq(d, end + 1, Len(d)))

\* The loop of apply: the array before the first edit and after each edit that
\* was applied; the loop ends at the first edit whose splice panics.
RECURSIVE apply_steps(_, _)
apply_steps(d, edits) ==
    IF edits = <<>>
    THEN <<d>>
    ELSE LET edit == Head(edits)
             start == edit.start
             end == start + edit.delete_count
             spliced == splice(d, start, end, edit.data)
         IN IF spliced = Nil
            THEN <<d>>
            ELSE <<d>> \o apply_steps(spliced[1], Tail(edits))

\* self.data after apply(edits)
apply(d, edits) ==
    LET steps == apply_steps(d, edits) IN steps[Len(steps)]

(***************************************************************************)
(* SpecApply: one apply call on an array of distinct values.               *)
(***************************************************************************)
MaxApplyLen == 3   \* length of the array before the call, and largest edit start
MaxEdits    == 2   \* edits in one call

DeleteCounts == 0..2
EditData == {<<>>, <<7>>, <<8, 9>>}

SemanticTokensEdits ==
    [start : 0..MaxApplyLen, delete_count : DeleteCounts, data : EditData]

Apply(edits) ==
    /\ last.op = "init"
    /\ \E steps \in {apply_steps(data, edits)} :
          /\ data' = apply(data, edits)
          /\ last' = [op |-> "apply", edits |-> edits, steps |-> steps,
                      panicked |-> Len(steps) <= Len(edits)]
    /\ UNCHANGED <<abs_tokens, decoded>>
    /\ UNCHANGED <<failure_counts, refresh_tasks, tasks, registered_buffers, has_project,
                   excerpts, calls>>
    /\ UNCHANGED <<cache_vars, view_vars>>

InitApply ==
    /\ InitCache /\ InitView
    /\ failure_counts = Empty
    /\ refresh_tasks = Empty
    /\ tasks = {}
    /\ registered_buffers = {}
    /\ has_project = TRUE
    /\ excerpts = SpecExcerpts
    /\ calls = [b \in Buffers |-> 0]
    /\ last = [op |-> "init"]
    /\ abs_tokens = <<>>
    /\ \E n \in 0..MaxApplyLen : data = [i \in 1..n |-> i - 1]
    /\ decoded = <<>>

NextApply ==
    /\ last.op = "init"
    /\ \E edits \in SeqsUpTo(SemanticTokensEdits, MaxEdits) : Apply(edits)

SpecApply == InitApply /\ [][NextApply]_vars

\* c is the sum a + b of two u32 values and fits in a u32
IsSum(c, a, b) ==
    \E carry \in {0, 1} : /\ a[1] + b[1] = c[1] + carry * LIMB
                          /\ a[2] + b[2] + carry = c[2]

\* a + b fits in a u32
Fits(a, b) == \E c \in {add_u32(a, b).value} : IsSum(c, a, b)

\* C25: the first tuple's delta_line and delta_start are the first token's line
\* and start; for every later tuple whose sums fit in a u32, delta_line 0 keeps
\* the line and gives start = previous start + delta_start, any other delta_line
\* gives line = previous line + delta_line and start = delta_start.  The
\* accumulator becomes None only by a tokens() call, and two iterations over the
\* unchanged stream yield the same sequence.
C25_DeltaRule ==
    /\ [](/\ \A i \in 1..Len(decoded) :
               LET dl == data[(i - 1) * TOKEN_WIDTH + 1]
                   ds == data[(i - 1) * TOKEN_WIDTH + 2]
               IN IF i = 1
                  THEN decoded[i][1] = dl /\ decoded[i][2] = ds
                  ELSE IF dl = U32_ZERO
                  THEN /\ decoded[i][1] = decoded[i - 1][1]
                       /\ Fits(decoded[i - 1][2], ds)
                            => IsSum(decoded[i][2], decoded[i - 1][2], ds)
                  ELSE /\ Fits(decoded[i - 1][1], dl)
                            => IsSum(decoded[i][1], decoded[i - 1][1], dl)
                       /\ decoded[i][2] = ds
          /\ \A p \in 1..Len(passes) : \A q \in 1..Len(passes) : passes[p] = passes[q])
    /\ [][(IF iter = Nil \/ iter' = Nil THEN FALSE
            ELSE iter[1].prev # Nil /\ iter'[1].prev = Nil)
            => last'.op = "tokens_call"]_vars

\* A second iteration has finished over a three-token stream with a same-line
\* token and a next-line token after the first.
C25_Witness ==
    /\ Len(passes) = 2
    /\ Len(passes[2]) = 3
    /\ data[TOKEN_WIDTH + 1] = U32_ZERO /\ data[TOKEN_WIDTH + 2] = U32_ONE
    /\ data[2 * TOKEN_WIDTH + 1] = U32_ONE /\ data[2 * TOKEN_WIDTH + 2] = U32_ONE
    /\ data[2] = U32_ONE

\* C26: in the decoded sequence the lines are non-decreasing and, for
\* consecutive tokens on one line, the starts are non-decreasing, for every
\* array of u32 values, the running sums at the 32-bit limit included.
C26_Monotonic ==
    \A i \in 2..Len(decoded) :
        /\ le_u32(decoded[i - 1][1], decoded[i][1])
        /\ decoded[i - 1][1] = decoded[i][1]
             => le_u32(decoded[i - 1][2], decoded[i][2])

\* C27: apply takes the edits in list order, each against the array the edits
\* before it left: an edit with start + delete_count <= the current length
\* leaves old[0..start] ++ data ++ old[start+delete_count..], of length
\* old - delete_count + |data|; the array after the call is the one the last
\* applied edit left.
C27_ApplyInOrder ==
    last.op = "apply" =>
        /\ \A i \in 1..Len(last.edits) :
              (i <= Len(last.steps) /\ last.edits[i].start + last.edits[i].delete_count
                                          <= Len(last.steps[i]))
              => LET old == last.steps[i]
                     e == last.edits[i]
                 IN /\ i + 1 <= Len(last.steps)
                    /\ last.steps[i + 1]
                         = [j \in 1..(Len(old) - e.delete_count + Len(e.data)) |->
                              IF j <= e.start THEN old[j]
                              ELSE IF j <= e.start + Len(e.data) THEN e.data[j - e.start]
                              ELSE old[j - Len(e.data) + e.delete_count]]
        /\ data = last.steps[Len(last.steps)]

\* Two edits were applied, the first changed the length, and the second removed
\* values the first had inserted.
C27_Witness ==
    /\ last.op = "apply"
    /\ Len(last.edits) = 2
    /\ ~last.panicked
    /\ last.edits[1] = [start |-> 1, delete_count |-> 1, data |-> <<8, 9>>]
    /\ last.edits[2] = [start |-> 2, delete_count |-> 2, data |-> <<7>>]
    /\ Len(last.steps[1]) = 3
    /\ data = <<0, 8, 7>>

\* the token of the convert call carries a modifier bit at a position the
\* legend has no modifier for
HasModifierOutsideLegend(arg) == arg.modifiers >= 2 ^ Len(arg.legend.token_modifiers)

\* C28: convert returns none when the token-type index is outside the legend,
\* when a modifier of the token is not found in the legend, or when the type
\* name matches none of the known classes.
C28_NoStyleCases ==
    (last.op = "convert" /\ convert_input # Nil) =>
        LET arg == convert_input[1]
            st == new_stylizer(arg.legend, arg.rainbow_config)
        IN (\/ arg.token_type >= Len(arg.legend.token_types)
            \/ HasModifierOutsideLegend(arg)
            \/ arg.legend.token_types[arg.token_type + 1] = "custom")
           => converted = Nil

\* the type name of the convert call's token; "custom" stands for every name
\* convert does not know
NameOf(arg) == arg.legend.token_types[arg.token_type + 1]

\* the convert call is on a token of a class convert knows
KnownClass(arg) ==
    /\ arg.token_type < Len(arg.legend.token_types)
    /\ NameOf(arg) # "custom"

\* rainbow applies to the token of the convert call
RainbowApplies(arg) ==
    LET st == new_stylizer(arg.legend, arg.rainbow_config)
    IN /\ arg.rainbow_config.enabled
       /\ arg.has_cache
       /\ arg.theme # Nil
       /\ should_apply_rainbow(st, NameOf(arg), arg.modifiers)

\* the positions of the chain whose key the theme styles with a colour
Coloured(theme, chain) ==
    {i \in 1..Len(chain) : /\ chain[i] \in DOMAIN theme.highlights
                           /\ theme.highlights[chain[i]].color # Nil}

\* C29: for a token of a known class to which rainbow does not apply, convert
\* returns the theme style of the first key of the class's chain that the
\* theme styles with a colour; without such a key, or without a theme, it
\* returns the empty style, not none.
C29_FirstColouredKey ==
    (last.op = "convert" /\ convert_input # Nil) =>
        LET arg == convert_input[1]
        IN (KnownClass(arg) /\ ~RainbowApplies(arg)) =>
              LET st == new_stylizer(arg.legend, arg.rainbow_config)
                  chain == choices(st, NameOf(arg), arg.modifiers)[1]
              IN IF arg.theme = Nil
                 THEN converted = Some(DefaultStyle)
                 ELSE IF Coloured(arg.theme[1], chain) = {}
                 THEN converted = Some(DefaultStyle)
                 ELSE \E i \in Coloured(arg.theme[1], chain) :
                         /\ \A j \in Coloured(arg.theme[1], chain) : i <= j
                         /\ converted = Some(arg.theme[1].highlights[chain[i]])

\* A default-library variable was converted with rainbow disabled under the
\* theme that styles "variable.builtin" without a colour: the second key of the
\* chain gave the style.
C29_Witness ==
    /\ last.op = "convert"
    /\ convert_input # Nil
    /\ KnownClass(convert_input[1])
    /\ NameOf(convert_input[1]) = "variable"
    /\ convert_input[1].legend = LegendA
    /\ convert_input[1].modifiers = 2
    /\ ~convert_input[1].rainbow_config.enabled
    /\ convert_input[1].theme = Some(SyntaxA)
    /\ converted = Some(SyntaxA.highlights["variable"])

\* the token of the convert call has the bit of the legend's modifier set
Carries(arg, modifier) ==
    \E i \in DOMAIN arg.legend.token_modifiers :
        /\ arg.legend.token_modifiers[i] = modifier
        /\ (arg.modifiers \div (2 ^ (i - 1))) % 2 = 1

\* the chain of a variable token by its modifiers
VariableChain(arg) ==
    IF Carries(arg, "defaultLibrary") /\ Carries(arg, "constant")
    THEN <<"constant.builtin", "constant">>
    ELSE IF Carries(arg, "defaultLibrary") THEN <<"variable.builtin", "variable">>
    ELSE IF Carries(arg, "constant") THEN <<"constant">>
    ELSE <<"variable">>

\* the style of the chain's first coloured key, the empty style without one
FirstColoured(theme, chain) ==
    IF theme = Nil THEN DefaultStyle
    ELSE IF Coloured(theme[1], chain) = {} THEN DefaultStyle
    ELSE LET i == CHOOSE i \in Coloured(theme[1], chain) :
                      \A j \in Coloured(theme[1], chain) : i <= j
         IN theme[1].highlights[chain[i]]

\* C30: a variable token's chain is ["constant.builtin", "constant"] with
\* defaultLibrary and constant both set, else ["variable.builtin", "variable"]
\* with defaultLibrary, else ["constant"] with constant, else ["variable"]; a
\* variable token carrying defaultLibrary or constant gets its style from that
\* chain and never a rainbow colour, whatever classes rainbow is enabled for.
C30_VariableChains ==
    (last.op = "convert" /\ convert_input # Nil) =>
        LET arg == convert_input[1]
            st == new_stylizer(arg.legend, arg.rainbow_config)
        IN (KnownClass(arg) /\ NameOf(arg) = "variable") =>
              /\ choices(st, "variable", arg.modifiers) = Some(VariableChain(arg))
              /\ (Carries(arg, "defaultLibrary") \/ Carries(arg, "constant"))
                    => /\ converted = Some(FirstColoured(arg.theme, VariableChain(arg)))
                       /\ colors \in CachesBefore(mode)

\* A variable carrying defaultLibrary and constant was converted with rainbow
\* enabled for variables, a colour cache and a theme: the style is the theme's
\* "constant.builtin".
C30_Witness ==
    /\ last.op = "convert"
    /\ convert_input # Nil
    /\ KnownClass(convert_input[1])
    /\ NameOf(convert_input[1]) = "variable"
    /\ convert_input[1].legend = LegendA
    /\ convert_input[1].modifiers = 6
    /\ convert_input[1].rainbow_config = [enabled |-> TRUE, token_types |-> <<"Variable">>]
    /\ convert_input[1].has_cache
    /\ convert_input[1].theme = Some(SyntaxB)
    /\ converted = Some(SyntaxB.highlights["constant.builtin"])

\* C31: in every state that triggers, debounce expiries, cancellations and
\* completions can reach, every buffer's failure count is at most 3, at most
\* one task of a buffer is alive and it is the one refresh_tasks holds, and
\* refresh_tasks has no entry for a buffer whose failure count is 3.
C31_CountAndTableBounds ==
    \A b \in Buffers :
        /\ failure_count(failure_counts, b) <= 3
        /\ Cardinality(TasksOf(tasks, b)) <= 1
        /\ \A t \in TasksOf(tasks, b) : b \in DOMAIN refresh_tasks /\ refresh_tasks[b] = t.seq
        /\ failure_count(failure_counts, b) = 3 =>
              /\ b \notin DOMAIN refresh_tasks
              /\ TasksOf(tasks, b) = {}

\* Buffer 1 has just failed for the third time while buffer 3, which has failed
\* twice, awaits the language server.
C31_Witness ==
    /\ last.op = "complete" /\ last.buf = 1 /\ last.how # "lsp_ok"
    /\ failure_count(failure_counts, 1) = 3
    /\ failure_count(failure_counts, 3) = 2
    /\ 3 \in DOMAIN refresh_tasks
    /\ \E t \in tasks : t.buf = 3 /\ t.pc = "lsp"

\* C32: failure_count(b) is the number of tasks of b that completed with a
\* failure since the last task of b that completed successfully, or since the
\* start; a task cancelled during its debounce or while it awaits the language
\* server changes no count.
C32_CountIsFailuresSinceSuccess ==
    /\ [](\A b \in Buffers : failure_count(failure_counts, b) = calls[b])
    /\ [][(last'.op = "trigger" /\ last'.replaced # {})
             => /\ failure_counts' = failure_counts
                /\ calls' = calls]_vars

\* The last trigger cancelled the task of buffer 3, which has failed twice since
\* its start; buffer 1 has failed once.
C32_Witness ==
    /\ last.op = "trigger" /\ 3 \in last.replaced
    /\ failure_count(failure_counts, 3) = 2
    /\ calls[1] = 1

\* C33: if triggers stop arriving then, with fair scheduling and a language
\* server that answers every call, refresh_tasks eventually becomes and stays
\* empty and no task stays alive; a task's entry leaves the table only when the
\* task completes, and a live task disappears without completing only in a
\* trigger that stores a new task for its buffer.
C33_Quiescence ==
    /\ <>[][last'.op # "trigger"]_vars
          => <>[](refresh_tasks = Empty /\ tasks = {})
    /\ [][\A b \in Buffers :
             /\ (b \in DOMAIN refresh_tasks /\ b \notin DOMAIN refresh_tasks')
                   => last'.op = "complete" /\ last'.buf = b
             /\ (TasksOf(tasks, b) # {} /\ ~(last'.op = "complete" /\ last'.buf = b))
                   => /\ TasksOf(tasks', b) # {}
                      /\ TasksOf(tasks', b) \cap TasksOf(tasks, b) = {}
                            => last'.op \in {"trigger", "start_lsp"}]_vars

\* The last live task has just completed: both buffers have had failing tasks,
\* and the table is empty.
C33_Witness ==
    /\ last.op = "complete"
    /\ refresh_tasks = Empty /\ tasks = {}
    /\ failure_count(failure_counts, 1) = 1
    /\ failure_count(failure_counts, 3) = 2

\* C34: remove_server_data(s) leaves every chunk entry present or absent as it
\* was: a chunk whose only cached server was s reports a present, empty map
\* from cached_tokens, a chunk without an entry stays without one, and every
\* fetch slot and every running fetch is left as it was.
C34_RemoveKeepsEntries ==
    [][last'.op = "remove_server_data" =>
          /\ \A c \in ChunkSet :
                /\ (cached_tokens(tokens_by_chunk, c) = Nil)
                      <=> (cached_tokens(tokens_by_chunk', c) = Nil)
                /\ (/\ cached_tokens(tokens_by_chunk, c) # Nil
                    /\ DOMAIN tokens_map(tokens_by_chunk, c) = {last'.server})
                      => cached_tokens(tokens_by_chunk', c) = Some(Empty)
                /\ fetched_tokens(fetches_by_chunk', c) = fetched_tokens(fetches_by_chunk, c)
          /\ in_flight' = in_flight
          /\ buffer_chunks' = buffer_chunks
      ]_vars

\* A removal has left one chunk with a present, empty map and the other chunk
\* without an entry, while a fetch is in flight.
C34_Witness ==
    /\ last.op = "remove_server_data"
    /\ Len(buffer_chunks) = 2
    /\ cached_tokens(tokens_by_chunk, buffer_chunks[1]) = Some(Empty)
    /\ cached_tokens(tokens_by_chunk, buffer_chunks[2]) = Nil
    /\ \E c \in ChunkSet : fetched_tokens(fetches_by_chunk, c) # Nil

\* C35: once a clear() has completed, the cache holds no colour computed from
\* the theme of before the clear: a get_or_insert call that missed before a
\* clear() and was still running when it executed leaves the map as clear()
\* and the later calls made it.
C35_ClearInvalidatesAll ==
    [][(last'.op = "get_or_insert" /\ ~last'.hit /\ last'.stale)
           => colors' = colors]_vars

====
